---- MODULE Spec2Model ----
(***************************************************************************)
(* A model of llm-coder: the sandbox path validator and the text patching   *)
(* engine of llm_coder/filesystem.py, the tool-calling loop of              *)
(* llm_coder/agent.py and the shell tool of llm_coder/shell_command.py.     *)
(*                                                                          *)
(* Text (paths, file contents, messages) is a sequence of one-character     *)
(* strings, so that prefix tests, substring search, replacement and line    *)
(* splitting are computed the way the Python code computes them.            *)
(***************************************************************************)
EXTENDS Integers, Sequences, FiniteSets, TLC

VARIABLES
  allowed_directories,   \* filesystem.py: the module global list of allowed roots
  storage,               \* the file system: absolute path -> node
  vp,                    \* the validate_path call, when that was the last operation
  ed,                    \* the last edit_file call: arguments, storage before, outcome
  pc,                    \* Agent.run: where the coroutine stands
  conversation_history,  \* Agent.conversation_history
  max_iterations,        \* Agent.max_iterations
  iteration,             \* Agent.run: the iterations of the loop started so far
  result,                \* Agent.run: the text returned
  error,                 \* Agent.run: the exception raised
  batch,                 \* _execution_phase: the tool calls being processed
  running,               \* _execution_phase: the tool call being executed
  available_tools,       \* Agent.available_tools: the registry
  tools,                 \* Agent.tools: the list sent to the completion service
  completion,            \* the completion service: the requests of the run, what it did
  sh,                    \* execute_shell_command_async: the call and its process
  tl,                    \* the last operation of filesystem.py: arguments, outcome
  runs                   \* the calls of Agent.run on this Agent so far

fs_vars == <<allowed_directories, storage, vp, ed>>
other_vars == <<available_tools, tools, sh, tl, runs>>
shell_rest == <<fs_vars, pc, conversation_history, max_iterations, iteration, result, error,
                batch, running, available_tools, tools, completion, tl, runs>>
agent_vars == <<pc, conversation_history, max_iterations, iteration, result, error,
                batch, running, other_vars, completion>>
vars == <<fs_vars, agent_vars>>
\* the Agent, the completion service and the shell call
agent_state == <<pc, conversation_history, max_iterations, iteration, result, error,
                 batch, running, available_tools, tools, completion, sh, runs>>

(***************************************************************************)
(* Python str operations                                                    *)
(***************************************************************************)
NL == "\n"
CR == "\r"
SP == " "
SEP == "/"

Max(x, y) == IF x >= y THEN x ELSE y
Min(x, y) == IF x <= y THEN x ELSE y

\* str.startswith
StartsWith(s, p) == Len(p) <= Len(s) /\ SubSeq(s, 1, Len(p)) = p

\* s[n:]
Drop(s, n) == SubSeq(s, n + 1, Len(s))

\* `sub in s`
Contains(s, sub) ==
  \E i \in 0..(Len(s) - Len(sub)) : SubSeq(s, i + 1, i + Len(sub)) = sub

\* str.replace: every non-overlapping occurrence, left to right; an empty
\* `old` matches before every character and at the end.
RECURSIVE Replace(_, _, _)
Replace(s, old, new) ==
  IF old = <<>>
    THEN new \o (IF s = <<>> THEN <<>> ELSE <<Head(s)>> \o Replace(Tail(s), old, new))
    ELSE IF Len(s) < Len(old) THEN s
    ELSE IF StartsWith(s, old) THEN new \o Replace(Drop(s, Len(old)), old, new)
    ELSE <<Head(s)>> \o Replace(Tail(s), old, new)

\* str.find(sep) + 1 for a one-character separator that occurs in s
FirstIndex(s, sep) ==
  CHOOSE i \in 1..Len(s) : s[i] = sep /\ \A j \in 1..(i - 1) : s[j] # sep

\* str.rfind(sep) + 1 for a one-character separator that occurs in s
LastIndex(s, sep) ==
  CHOOSE i \in 1..Len(s) : s[i] = sep /\ \A j \in (i + 1)..Len(s) : s[j] # sep

Occurs(s, sep) == \E i \in 1..Len(s) : s[i] = sep

\* str.split(sep) for a one-character separator
RECURSIVE Split(_, _)
SplitAt(s, sep, k) == <<SubSeq(s, 1, k - 1)>> \o Split(Drop(s, k), sep)
Split(s, sep) == IF ~Occurs(s, sep) THEN <<s>> ELSE SplitAt(s, sep, FirstIndex(s, sep))

\* sep.join(parts)
RECURSIVE Join(_, _)
Join(parts, sep) ==
  IF parts = <<>> THEN <<>>
  ELSE IF Len(parts) = 1 THEN parts[1]
  ELSE parts[1] \o <<sep>> \o Join(Tail(parts), sep)

(***************************************************************************)
(* posixpath                                                                *)
(***************************************************************************)
IsAbs(p) == StartsWith(p, <<SEP>>)

\* os.path.join(a, b)
PathJoin(a, b) ==
  IF IsAbs(b) THEN b
  ELSE IF a = <<>> \/ a[Len(a)] = SEP THEN a \o b
  ELSE a \o <<SEP>> \o b

DOTDOT == <<".", ".">>

\* the component loop of posixpath.normpath
RECURSIVE NormComps(_, _, _)
NormComps(comps, acc, initial_slashes) ==
  IF comps = <<>> THEN acc
  ELSE IF Head(comps) = <<>> \/ Head(comps) = <<".">>
    THEN NormComps(Tail(comps), acc, initial_slashes)
  ELSE IF Head(comps) # DOTDOT
          \/ (initial_slashes = 0 /\ acc = <<>>)
          \/ (acc # <<>> /\ acc[Len(acc)] = DOTDOT)
    THEN NormComps(Tail(comps), Append(acc, Head(comps)), initial_slashes)
  ELSE IF acc # <<>>
    THEN NormComps(Tail(comps), SubSeq(acc, 1, Len(acc) - 1), initial_slashes)
  ELSE NormComps(Tail(comps), acc, initial_slashes)

\* POSIX keeps exactly two leading slashes apart from one
InitialSlashes(p) ==
  IF ~IsAbs(p) THEN 0
  ELSE IF StartsWith(p, <<SEP, SEP>>) /\ ~StartsWith(p, <<SEP, SEP, SEP>>) THEN 2
  ELSE 1

\* `path or "."`
OrDot(path) == IF path = <<>> THEN <<".">> ELSE path

NormWith(p, initial_slashes) ==
  OrDot([i \in 1..initial_slashes |-> SEP]
        \o Join(NormComps(Split(p, SEP), <<>>, initial_slashes), SEP))

\* os.path.normpath
normalize_path(p) == IF p = <<>> THEN <<".">> ELSE NormWith(p, InitialSlashes(p))

\* head.rstrip("/") for a head that is not all slashes
RECURSIVE RStripSep(_)
RStripSep(head) ==
  IF head # <<>> /\ head[Len(head)] = SEP
    THEN RStripSep(SubSeq(head, 1, Len(head) - 1)) ELSE head

DirHead(head) == IF \A j \in 1..Len(head) : head[j] = SEP THEN head ELSE RStripSep(head)

\* os.path.dirname
DirName(p) == IF ~Occurs(p, SEP) THEN <<>> ELSE DirHead(SubSeq(p, 1, LastIndex(p, SEP)))

\* os.path.basename
BaseName(p) == IF ~Occurs(p, SEP) THEN p ELSE Drop(p, LastIndex(p, SEP))

\* the process environment: os.getcwd() and os.path.expanduser("~")
Cwd == <<"/", "r">>
Home == <<"/", "o">>

\* os.path.abspath
AbsPath(p) == normalize_path(IF IsAbs(p) THEN p ELSE PathJoin(Cwd, p))

\* expand_home: the text after the "~" still starts with "/", so the join
\* discards the home directory
expand_home(filepath) ==
  IF StartsWith(filepath, <<"~", SEP>>) \/ filepath = <<"~">>
    THEN PathJoin(Home, Drop(filepath, 1))
    ELSE filepath

(***************************************************************************)
(* Storage: absolute normalized path -> node.  A node is a directory, a     *)
(* file with its content, or a symbolic link with its target.               *)
(***************************************************************************)
DirNode == [kind |-> "dir", content |-> <<>>, target |-> <<>>]
FileNode(c) == [kind |-> "file", content |-> c, target |-> <<>>]
LinkNode(t) == [kind |-> "link", content |-> <<>>, target |-> t]

IsLink(fs, p) == p \in DOMAIN fs /\ fs[p].kind = "link"

\* The depth to which chains of symbolic links are followed; the storage of
\* the model holds no chain longer than this.
MaxLinkDepth == 2

\* the start of a walk along path p, and the components to walk
WalkStart(p, path) == IF IsAbs(p) THEN <<SEP>> ELSE path
WalkComps(p) == Split(IF IsAbs(p) THEN Drop(p, 1) ELSE p, SEP)

\* posixpath._joinrealpath (strict=False): component by component, a
\* symbolic link is replaced by the real path of its target; a missing
\* component is kept as it is.
RECURSIVE JoinRealPath(_, _, _, _)
JoinStep(fs, path, newpath, rest, depth) ==
  IF IsLink(fs, newpath) /\ depth > 0
    THEN JoinRealPath(fs,
                      JoinRealPath(fs, WalkStart(fs[newpath].target, path),
                                   WalkComps(fs[newpath].target), depth - 1),
                      rest, depth)
    ELSE JoinRealPath(fs, newpath, rest, depth)

JoinRealPath(fs, path, comps, depth) ==
  IF comps = <<>> THEN path
  ELSE IF Head(comps) = <<>> \/ Head(comps) = <<".">>
    THEN JoinRealPath(fs, path, Tail(comps), depth)
  ELSE IF Head(comps) = DOTDOT
    THEN JoinRealPath(fs, IF path = <<>> THEN DOTDOT ELSE DirName(path), Tail(comps), depth)
  ELSE JoinStep(fs, path, PathJoin(path, Head(comps)), Tail(comps), depth)

\* os.path.realpath
RealPath(fs, p) == AbsPath(JoinRealPath(fs, WalkStart(p, <<>>), WalkComps(p), MaxLinkDepth))

\* os.path.exists / os.path.isdir / os.path.isfile: they follow links
KindAt(fs, real) == IF real \in DOMAIN fs THEN fs[real].kind ELSE "missing"
KindOf(fs, p) == KindAt(fs, RealPath(fs, AbsPath(p)))
Exists(fs, p) == KindOf(fs, p) # "missing"
IsDir(fs, p) == KindOf(fs, p) = "dir"
IsFile(fs, p) == KindOf(fs, p) = "file"

(***************************************************************************)
(* validate_path                                                            *)
(***************************************************************************)
\* a test that lets every path pass when no directory is allowed
AnyStartsWithOrNone(path, dirs) ==
  dirs = <<>> \/ \E k \in 1..Len(dirs) : StartsWith(path, dirs[k])

\* any(path.startswith(dir) for dir in allowed_directories)
AnyStartsWith(path, dirs) == \E k \in 1..Len(dirs) : StartsWith(path, dirs[k])

Ok(p) == [ok |-> TRUE, err |-> "", path |-> p]
Err(e) == [ok |-> FALSE, err |-> e, path |-> <<>>]

\* the handler of the outer try block: the new-file branch.  Whatever its
\* own try block raises becomes "Parent directory does not exist".
ValidateParent(absolute, dirs, fs) ==
  IF AnyStartsWith(normalize_path(RealPath(fs, DirName(absolute))), dirs)
    THEN Ok(absolute)
    ELSE Err("ParentNotFound")

\* the outer try block: the ValueError it raises for a real path outside the
\* allowed directories is caught by its own `except Exception`
ValidateReal(absolute, real_path, dirs, fs) ==
  IF AnyStartsWith(normalize_path(real_path), dirs)
    THEN Ok(real_path)
    ELSE ValidateParent(absolute, dirs, fs)

ValidateAbsolute(absolute, dirs, fs) ==
  IF ~AnyStartsWith(normalize_path(absolute), dirs)
    THEN Err("AccessDenied")
    ELSE ValidateReal(absolute, RealPath(fs, absolute), dirs, fs)

\* The outcome of validate_path: the path it returns, or the ValueError it
\* raises.
validate_path(requested_path, dirs, fs) ==
  ValidateAbsolute(AbsPath(expand_home(requested_path)), dirs, fs)

(***************************************************************************)
(* Text files                                                               *)
(***************************************************************************)
\* open(path, "r").read(): universal newlines turn "\r\n" and "\r" into "\n"
ReadText(bytes) == Replace(Replace(bytes, <<CR, NL>>, <<NL>>), <<CR>>, <<NL>>)

normalize_line_endings(text) == Replace(text, <<CR, NL>>, <<NL>>)

\* str.strip() / str.lstrip()
Whitespace == {SP, NL, CR, "\t"}

RECURSIVE LStrip(_)
LStrip(s) == IF s # <<>> /\ Head(s) \in Whitespace THEN LStrip(Tail(s)) ELSE s

RECURSIVE RStrip(_)
RStrip(s) ==
  IF s # <<>> /\ s[Len(s)] \in Whitespace THEN RStrip(SubSeq(s, 1, Len(s) - 1)) ELSE s

Strip(s) == RStrip(LStrip(s))

\* str.splitlines(): "\n", "\r" and "\r\n" end a line; no empty last line
RECURSIVE SplitLines(_, _)
SplitLines(s, cur) ==
  IF s = <<>> THEN (IF cur = <<>> THEN <<>> ELSE <<cur>>)
  ELSE IF StartsWith(s, <<CR, NL>>) THEN <<cur>> \o SplitLines(Drop(s, 2), <<>>)
  ELSE IF Head(s) \in {NL, CR} THEN <<cur>> \o SplitLines(Tail(s), <<>>)
  ELSE SplitLines(Tail(s), Append(cur, Head(s)))

\* '{}'.format(n) for n >= 0
Digit(d) == CASE d = 0 -> "0" [] d = 1 -> "1" [] d = 2 -> "2" [] d = 3 -> "3"
              [] d = 4 -> "4" [] d = 5 -> "5" [] d = 6 -> "6" [] d = 7 -> "7"
              [] d = 8 -> "8" [] OTHER -> "9"

RECURSIVE FormatInt(_)
FormatInt(n) ==
  IF n < 10 THEN <<Digit(n)>> ELSE FormatInt(n \div 10) \o <<Digit(n % 10)>>

(***************************************************************************)
(* difflib.SequenceMatcher(None, a, b) over lists of lines (no junk; the    *)
(* popularity heuristic needs 200 lines and never applies here).            *)
(* Indices are 0-based half-open ranges as in difflib; line k of a list is  *)
(* a[k + 1].                                                                *)
(***************************************************************************)
\* the length of the common run of a[i..] and b[j..] inside the two ranges
RECURSIVE RunLen(_, _, _, _, _, _)
RunLen(a, b, i, j, ahi, bhi) ==
  IF i < ahi /\ j < bhi /\ a[i + 1] = b[j + 1]
    THEN 1 + RunLen(a, b, i + 1, j + 1, ahi, bhi)
    ELSE 0

\* find_longest_match: the longest block; among those the one starting
\* earliest in a, and among those the one starting earliest in b
SetMax(S) == CHOOSE n \in S : \A m \in S : m <= n

Earliest(cands) ==
  CHOOSE p \in cands : \A q \in cands : p[1] < q[1] \/ (p[1] = q[1] /\ p[2] <= q[2])

LongestAt(a, b, alo, blo, ahi, bhi, pairs, best) ==
  IF best = 0 THEN <<alo, blo, 0>>
  ELSE Earliest({p \in pairs : RunLen(a, b, p[1], p[2], ahi, bhi) = best}) \o <<best>>

FindLongestMatch(a, b, alo, ahi, blo, bhi) ==
  LongestAt(a, b, alo, blo, ahi, bhi, (alo..(ahi - 1)) \X (blo..(bhi - 1)),
            SetMax({0} \cup {RunLen(a, b, p[1], p[2], ahi, bhi) :
                               p \in (alo..(ahi - 1)) \X (blo..(bhi - 1))}))

\* get_matching_blocks, before the final sentinel: the blocks in order
RECURSIVE MatchingBlocks(_, _, _, _, _, _)
BlocksAround(a, b, alo, ahi, blo, bhi, m) ==
  IF m[3] = 0 THEN <<>>
  ELSE (IF alo < m[1] /\ blo < m[2] THEN MatchingBlocks(a, b, alo, m[1], blo, m[2]) ELSE <<>>)
       \o <<m>>
       \o (IF m[1] + m[3] < ahi /\ m[2] + m[3] < bhi
             THEN MatchingBlocks(a, b, m[1] + m[3], ahi, m[2] + m[3], bhi) ELSE <<>>)

MatchingBlocks(a, b, alo, ahi, blo, bhi) ==
  BlocksAround(a, b, alo, ahi, blo, bhi, FindLongestMatch(a, b, alo, ahi, blo, bhi))

\* get_matching_blocks: adjacent blocks are merged, the sentinel is appended
RECURSIVE MergeBlocks(_, _)
MergeBlocks(blocks, cur) ==
  IF blocks = <<>> THEN (IF cur[3] > 0 THEN <<cur>> ELSE <<>>)
  ELSE LET nb == Head(blocks)
       IN IF cur[1] + cur[3] = nb[1] /\ cur[2] + cur[3] = nb[2]
            THEN MergeBlocks(Tail(blocks), <<cur[1], cur[2], cur[3] + nb[3]>>)
            ELSE (IF cur[3] > 0 THEN <<cur>> ELSE <<>>) \o MergeBlocks(Tail(blocks), nb)

GetMatchingBlocks(a, b) ==
  MergeBlocks(MatchingBlocks(a, b, 0, Len(a), 0, Len(b)), <<0, 0, 0>>)
  \o << <<Len(a), Len(b), 0>> >>

\* get_opcodes: <<tag, i1, i2, j1, j2>>
RECURSIVE OpcodesFrom(_, _, _)
OpcodesFrom(blocks, i, j) ==
  IF blocks = <<>> THEN <<>>
  ELSE LET ai == Head(blocks)[1]
           bj == Head(blocks)[2]
           size == Head(blocks)[3]
           tag == IF i < ai /\ j < bj THEN "replace"
                  ELSE IF i < ai THEN "delete"
                  ELSE IF j < bj THEN "insert"
                  ELSE ""
       IN (IF tag # "" THEN << <<tag, i, ai, j, bj>> >> ELSE <<>>)
          \o (IF size > 0 THEN << <<"equal", ai, ai + size, bj, bj + size>> >> ELSE <<>>)
          \o OpcodesFrom(Tail(blocks), ai + size, bj + size)

GetOpcodes(a, b) == OpcodesFrom(GetMatchingBlocks(a, b), 0, 0)

\* the lines of context unified_diff asks for (its default n)
ContextLines == 3

\* get_grouped_opcodes: the groups, each a list of opcodes
RECURSIVE GroupLoop(_, _)
GroupLoop(codes, group) ==
  IF codes = <<>>
    THEN IF group # <<>> /\ ~(Len(group) = 1 /\ group[1][1] = "equal")
           THEN <<group>> ELSE <<>>
    ELSE LET c == Head(codes)
             n == ContextLines
         IN IF c[1] = "equal" /\ c[3] - c[2] > n + n
              THEN <<Append(group, <<c[1], c[2], Min(c[3], c[2] + n), c[4], Min(c[5], c[4] + n)>>)>>
                   \o GroupLoop(Tail(codes),
                                << <<c[1], Max(c[2], c[3] - n), c[3], Max(c[4], c[5] - n), c[5]>> >>)
              ELSE GroupLoop(Tail(codes), Append(group, c))

\* codes = [("equal", 0, 1, 0, 1)] when there are no opcodes
NonEmptyCodes(codes) == IF codes = <<>> THEN << <<"equal", 0, 1, 0, 1>> >> ELSE codes

\* a leading equal block keeps its last n lines
TrimFirst(codes, n) ==
  IF codes[1][1] = "equal"
    THEN << <<"equal", Max(codes[1][2], codes[1][3] - n), codes[1][3],
              Max(codes[1][4], codes[1][5] - n), codes[1][5]>> >> \o Tail(codes)
    ELSE codes

\* a trailing equal block keeps its first n lines
TrimLast(codes, n) ==
  IF codes[Len(codes)][1] = "equal"
    THEN SubSeq(codes, 1, Len(codes) - 1)
         \o << <<"equal", codes[Len(codes)][2],
                Min(codes[Len(codes)][3], codes[Len(codes)][2] + n),
                codes[Len(codes)][4],
                Min(codes[Len(codes)][5], codes[Len(codes)][4] + n)>> >>
    ELSE codes

GetGroupedOpcodes(a, b) ==
  GroupLoop(TrimLast(TrimFirst(NonEmptyCodes(GetOpcodes(a, b)), ContextLines),
                     ContextLines), <<>>)

\* _format_range_unified
FormatRangeUnified(start, stop) ==
  LET length == stop - start
  IN IF length = 1 THEN FormatInt(start + 1)
     ELSE FormatInt(IF length = 0 THEN start ELSE start + 1) \o <<",">> \o FormatInt(length)

\* the lines a[i1:i2], each behind the prefix
RECURSIVE Prefixed(_, _, _, _)
Prefixed(prefix, lines, i1, i2) ==
  IF i1 >= i2 THEN <<>>
  ELSE << <<prefix>> \o lines[i1 + 1] >> \o Prefixed(prefix, lines, i1 + 1, i2)

RECURSIVE GroupLines(_, _, _)
GroupLines(a, b, group) ==
  IF group = <<>> THEN <<>>
  ELSE LET c == Head(group)
       IN (IF c[1] = "equal" THEN Prefixed(SP, a, c[2], c[3])
           ELSE (IF c[1] \in {"replace", "delete"} THEN Prefixed("-", a, c[2], c[3]) ELSE <<>>)
                \o (IF c[1] \in {"replace", "insert"} THEN Prefixed("+", b, c[4], c[5]) ELSE <<>>))
          \o GroupLines(a, b, Tail(group))

RECURSIVE HunkLines(_, _, _)
HunkLines(a, b, groups) ==
  IF groups = <<>> THEN <<>>
  ELSE LET g == Head(groups)
           first == g[1]
           last == g[Len(g)]
       IN << <<"@", "@", SP, "-">> \o FormatRangeUnified(first[2], last[3])
             \o <<SP, "+">> \o FormatRangeUnified(first[4], last[5])
             \o <<SP, "@", "@">> >>
          \o GroupLines(a, b, g) \o HunkLines(a, b, Tail(groups))

TxtOriginal == <<SP, "(", "o", "r", "i", "g", "i", "n", "a", "l", ")">>
TxtModified == <<SP, "(", "m", "o", "d", "i", "f", "i", "e", "d", ")">>

\* difflib.unified_diff(a, b, fromfile, tofile, lineterm=""): a list of lines
DiffLines(a, b, fromfile, tofile, groups) ==
  IF groups = <<>> THEN <<>>
  ELSE << <<"-", "-", "-", SP>> \o fromfile, <<"+", "+", "+", SP>> \o tofile >>
       \o HunkLines(a, b, groups)

UnifiedDiff(a, b, fromfile, tofile) ==
  DiffLines(a, b, fromfile, tofile, GetGroupedOpcodes(a, b))

create_unified_diff(original_content, new_content, filepath) ==
  Join(UnifiedDiff(SplitLines(normalize_line_endings(original_content), <<>>),
                   SplitLines(normalize_line_endings(new_content), <<>>),
                   filepath \o TxtOriginal, filepath \o TxtModified), NL)

(***************************************************************************)
(* apply_file_edits                                                         *)
(***************************************************************************)
EditOperation(o, n) == [oldText |-> o, newText |-> n]

\* str.replace with count = 1: the first occurrence alone
ReplaceFirst(s, old, new) ==
  IF ~Contains(s, old) THEN s
  ELSE SubSeq(s, 1, (CHOOSE i \in 0..(Len(s) - Len(old)) :
                       /\ SubSeq(s, i + 1, i + Len(old)) = old
                       /\ \A j \in 0..(i - 1) : SubSeq(s, j + 1, j + Len(old)) # old))
       \o new
       \o Drop(s, (CHOOSE i \in 0..(Len(s) - Len(old)) :
                     /\ SubSeq(s, i + 1, i + Len(old)) = old
                     /\ \A j \in 0..(i - 1) : SubSeq(s, j + 1, j + Len(old)) # old) + Len(old))

\* an exact pass that stops after the first occurrence
ExactReplaceFirst(modified_content, normalized_old, normalized_new) ==
  ReplaceFirst(modified_content, normalized_old, normalized_new)

\* the exact pass: modified_content.replace(normalized_old, normalized_new)
ExactReplace(modified_content, normalized_old, normalized_new) ==
  Replace(modified_content, normalized_old, normalized_new)

\* the windows of the fuzzy pass that match: every line pair is equal after
\* strip(); i ranges over range(len(content_lines) - len(old_lines) + 1)
FuzzyWindows(content_lines, old_lines) ==
  { i \in 0..(Len(content_lines) - Len(old_lines)) :
      \A k \in 1..Len(old_lines) : Strip(old_lines[k]) = Strip(content_lines[i + k]) }

\* The loop over the edits.  `trace` holds the content before the first edit
\* and after every edit applied so far, `passes` the pass that located each
\* edit.  On the first matching window of the fuzzy pass the code calls
\* potential_match[0].match(...), which a str does not have: AttributeError.
RECURSIVE EditLoop(_, _, _, _)
\* a loop in which a later edit is applied to the content as it was read
ExactStepOnOriginal(next, edits, trace, passes) ==
  EditLoop(IF Tail(edits) = <<>> THEN next ELSE trace[1], Tail(edits), Append(trace, next),
           Append(passes, "exact"))

ExactStep(next, edits, trace, passes) ==
  EditLoop(next, Tail(edits), Append(trace, next), Append(passes, "exact"))

FuzzyStep(modified_content, edits, trace, passes, normalized_old) ==
  IF FuzzyWindows(Split(modified_content, NL), Split(normalized_old, NL)) # {}
    THEN [kind |-> "AttributeError", content |-> modified_content, trace |-> trace,
          passes |-> Append(passes, "fuzzy"), old |-> Head(edits).oldText]
    ELSE [kind |-> "NoMatch", content |-> modified_content, trace |-> trace,
          passes |-> Append(passes, "none"), old |-> Head(edits).oldText]

EditStep(modified_content, edits, trace, passes, normalized_old, normalized_new) ==
  IF Contains(modified_content, normalized_old)
    THEN ExactStep(ExactReplace(modified_content, normalized_old, normalized_new),
                   edits, trace, passes)
    ELSE FuzzyStep(modified_content, edits, trace, passes, normalized_old)

EditLoop(modified_content, edits, trace, passes) ==
  IF edits = <<>>
    THEN [kind |-> "ok", content |-> modified_content, trace |-> trace,
          passes |-> passes, old |-> <<>>]
    ELSE EditStep(modified_content, edits, trace, passes,
                  normalize_line_endings(Head(edits).oldText),
                  normalize_line_endings(Head(edits).newText))

\* the backtick character (a name: the parser takes no backtick in a string)
BQ == "BQ"

\* the least fence width
MinBackticks == 3

\* a test made once where the code loops
NumBackticksOnce(diff, n) ==
  IF Contains(diff, [i \in 1..n |-> BQ]) THEN n + 1 ELSE n

\* while "`" * num_backticks in diff: num_backticks += 1
RECURSIVE NumBackticks(_, _)
NumBackticks(diff, n) ==
  IF Contains(diff, [i \in 1..n |-> BQ]) THEN NumBackticks(diff, n + 1) ELSE n

Fenced(fence, diff) ==
  fence \o <<"d", "i", "f", "f", NL>> \o diff \o <<NL>> \o fence \o <<NL, NL>>

FormatDiff(diff) == Fenced([i \in 1..NumBackticks(diff, MinBackticks) |-> BQ], diff)

\* open(file_path, "w").write(text): the file a link names is the one written
WriteAt(fs, real, text) ==
  IF real \in DOMAIN fs
    THEN [fs EXCEPT ![real] = FileNode(text)]
    ELSE fs @@ (real :> FileNode(text))

WriteFile(fs, file_path, text) == WriteAt(fs, RealPath(fs, file_path), text)

\* a write-back that does not wait for the loop to end without an exception
WriteBackAlways(fs, file_path, loop, dry_run) ==
  IF ~dry_run THEN WriteFile(fs, file_path, loop.content) ELSE fs

\* a write-back that pays no attention to dry_run
WriteBackIgnoringDryRun(fs, file_path, loop, dry_run) ==
  IF loop.kind = "ok" THEN WriteFile(fs, file_path, loop.content) ELSE fs

\* the storage apply_file_edits leaves: the file is written once, after the
\* loop ended without an exception and the diff was made, unless dry_run
WriteBack(fs, file_path, loop, dry_run) ==
  IF loop.kind = "ok" /\ ~dry_run THEN WriteFile(fs, file_path, loop.content) ELSE fs

NoLoop == [kind |-> "none", content |-> <<>>, trace |-> <<>>, passes |-> <<>>, old |-> <<>>]

\* apply_file_edits after the loop: the diff is made and fenced, the file is
\* written, the fenced diff is returned; an exception of the loop leaves
\* the function before any of that
AfterLoop(fs, file_path, content, loop, dry_run) ==
  [kind |-> loop.kind,
   text |-> IF loop.kind = "ok"
              THEN FormatDiff(create_unified_diff(content, loop.content, file_path))
              ELSE <<>>,
   loop |-> loop,
   fs |-> WriteBack(fs, file_path, loop, dry_run)]

EditContent(fs, file_path, content, edits, dry_run) ==
  AfterLoop(fs, file_path, content, EditLoop(content, edits, <<content>>, <<>>), dry_run)

ReadAndEdit(fs, file_path, real, edits, dry_run) ==
  IF real \notin DOMAIN fs
    THEN [kind |-> "FileNotFoundError", text |-> <<>>, loop |-> NoLoop, fs |-> fs]
  ELSE IF fs[real].kind # "file"
    THEN [kind |-> "IsADirectoryError", text |-> <<>>, loop |-> NoLoop, fs |-> fs]
  ELSE EditContent(fs, file_path, normalize_line_endings(ReadText(fs[real].content)),
                   edits, dry_run)

\* apply_file_edits: the outcome (the text returned or the exception raised),
\* the loop's record and the storage afterwards
apply_file_edits(fs, file_path, edits, dry_run) ==
  ReadAndEdit(fs, file_path, RealPath(fs, file_path), edits, dry_run)

\* args.dry_run: dryRun defaults to False
DryRunOf(arguments) ==
  IF "dryRun" \in DOMAIN arguments THEN arguments["dryRun"] ELSE FALSE

EditValidated(fs, valid, arguments) ==
  IF ~valid.ok
    THEN [kind |-> valid.err, text |-> <<>>, loop |-> NoLoop, fs |-> fs]
    ELSE apply_file_edits(fs, valid.path, arguments["edits"], DryRunOf(arguments))

\* execute_edit_file.  Arguments are a JSON object: a function from member
\* names to values.  EditFileArgs requires path and edits.
execute_edit_file(fs, dirs, arguments) ==
  IF ~({"path", "edits"} \subseteq DOMAIN arguments)
    THEN [kind |-> "ValidationError", text |-> <<>>, loop |-> NoLoop, fs |-> fs]
    ELSE EditValidated(fs, validate_path(arguments["path"], dirs, fs), arguments)

(***************************************************************************)
(* The storage the model starts from.  /r is the sandbox root; /o lies      *)
(* outside it; /rx is a sibling whose name extends the root's name.         *)
(***************************************************************************)
pRoot == <<"/">>
pR == <<"/", "r">>
pRf == <<"/", "r", "/", "f">>
pRd == <<"/", "r", "/", "d">>
pRl == <<"/", "r", "/", "l">>
pRk == <<"/", "r", "/", "k">>
pRn == <<"/", "r", "/", "n">>
pO == <<"/", "o">>
pOs == <<"/", "o", "/", "s">>
pRx == <<"/", "r", "x">>
pRxf == <<"/", "r", "x", "/", "f">>

FileText == <<"a", CR, NL, SP, "a">>
SecretText == <<"s">>

InitStorage ==
  (pRoot :> DirNode) @@ (pR :> DirNode) @@ (pRf :> FileNode(FileText))
  @@ (pRd :> DirNode) @@ (pRl :> LinkNode(pOs)) @@ (pRk :> LinkNode(pO))
  @@ (pO :> DirNode) @@ (pOs :> FileNode(SecretText))
  @@ (pRx :> DirNode) @@ (pRxf :> FileNode(FileText))


(***************************************************************************)
(* initialize_filesystem_settings                                           *)
(***************************************************************************)
\* a loop that keeps every candidate that exists, a file too
KeepExisting(norm_dir, rest, fs) ==
  IF ~Exists(fs, norm_dir) THEN rest ELSE <<norm_dir>> \o rest

RECURSIVE ValidDirectories(_, _)
KeepDirectory(norm_dir, rest, fs) ==
  IF ~Exists(fs, norm_dir) THEN rest
  ELSE IF ~IsDir(fs, norm_dir) THEN rest
  ELSE <<norm_dir>> \o rest

ValidDirectories(directories, fs) ==
  IF directories = <<>> THEN <<>>
  ELSE KeepDirectory(normalize_path(AbsPath(expand_home(Head(directories)))),
                     ValidDirectories(Tail(directories), fs), fs)

(***************************************************************************)
(* The other tools of get_filesystem_tools                                  *)
(***************************************************************************)
ToolResult(kind, text, fs) == [kind |-> kind, text |-> text, fs |-> fs]

\* the outcome of a call that fails in model_validate or in validate_path
Rejected(fs, required, arguments, valid) ==
  IF ~(required \subseteq DOMAIN arguments) THEN ToolResult("ValidationError", <<>>, fs)
  ELSE ToolResult(valid.err, <<>>, fs)

\* validate_path on the path member, when there is one
ValidatedPath(fs, dirs, arguments) ==
  IF "path" \in DOMAIN arguments THEN validate_path(arguments["path"], dirs, fs)
  ELSE Err("ValidationError")

\* execute_read_file: `async with` is handed the coroutine asyncio.to_thread
\* returns, which is no asynchronous context manager: TypeError, before the
\* file is opened
execute_read_file(fs, dirs, arguments) ==
  IF {"path"} \subseteq DOMAIN arguments /\ ValidatedPath(fs, dirs, arguments).ok
    THEN ToolResult("TypeError", <<>>, fs)
    ELSE Rejected(fs, {"path"}, arguments, ValidatedPath(fs, dirs, arguments))

\* execute_write_file: the same `async with`; the file is never opened
execute_write_file(fs, dirs, arguments) ==
  IF {"path", "content"} \subseteq DOMAIN arguments /\ ValidatedPath(fs, dirs, arguments).ok
    THEN ToolResult("TypeError", <<>>, fs)
    ELSE Rejected(fs, {"path", "content"}, arguments, ValidatedPath(fs, dirs, arguments))

\* the directory entry a name denotes: its parent resolved, its last
\* component as it is
EntryPath(fs, name) == PathJoin(RealPath(fs, DirName(name)), BaseName(name))

\* os.mkdir
Mkdir(fs, name) ==
  IF EntryPath(fs, name) \in DOMAIN fs THEN ToolResult("FileExistsError", <<>>, fs)
  ELSE IF ~Exists(fs, DirName(name)) THEN ToolResult("FileNotFoundError", <<>>, fs)
  ELSE IF ~IsDir(fs, DirName(name)) THEN ToolResult("NotADirectoryError", <<>>, fs)
  ELSE ToolResult("ok", <<>>, fs @@ (EntryPath(fs, name) :> DirNode))

\* the end of os.makedirs(name, exist_ok=True): an OSError of mkdir is
\* swallowed when the name is a directory
MkdirExistOk(made, fs, name) ==
  IF made.kind # "ok" /\ IsDir(fs, name) THEN ToolResult("ok", <<>>, fs) ELSE made

\* os.makedirs(name, exist_ok=True)
RECURSIVE MakeDirs(_, _)
MakeLeaf(head, name) ==
  IF head.kind \notin {"ok", "FileExistsError"} THEN head
  ELSE MkdirExistOk(Mkdir(head.fs, name), head.fs, name)

MakeDirs(fs, name) ==
  IF DirName(name) # <<>> /\ BaseName(name) # <<>> /\ ~Exists(fs, DirName(name))
    THEN MakeLeaf(MakeDirs(fs, DirName(name)), name)
    ELSE MkdirExistOk(Mkdir(fs, name), fs, name)

TxtDirCreated == <<"DIRECTORY_CREATED">>

CreateValidated(fs, arguments, made) ==
  IF made.kind # "ok" THEN made
  ELSE ToolResult("ok", TxtDirCreated \o arguments["path"], made.fs)

\* a create_directory that makes the directories and validates afterwards
CreateThenValidate(fs, dirs, arguments) ==
  IF {"path"} \subseteq DOMAIN arguments /\ ValidatedPath(fs, dirs, arguments).ok
    THEN CreateValidated(fs, arguments, MakeDirs(fs, ValidatedPath(fs, dirs, arguments).path))
  ELSE IF {"path"} \subseteq DOMAIN arguments
    THEN ToolResult(ValidatedPath(fs, dirs, arguments).err, <<>>,
                    MakeDirs(fs, AbsPath(arguments["path"])).fs)
  ELSE Rejected(fs, {"path"}, arguments, ValidatedPath(fs, dirs, arguments))

execute_create_directory(fs, dirs, arguments) ==
  IF {"path"} \subseteq DOMAIN arguments /\ ValidatedPath(fs, dirs, arguments).ok
    THEN CreateValidated(fs, arguments, MakeDirs(fs, ValidatedPath(fs, dirs, arguments).path))
    ELSE Rejected(fs, {"path"}, arguments, ValidatedPath(fs, dirs, arguments))

\* the names os.listdir finds in a directory
ListDir(fs, real) == { BaseName(p) : p \in {q \in DOMAIN fs : q # real /\ DirName(q) = real} }

\* os.listdir returns the names in an arbitrary order
Orders(S) == { f \in [1..Cardinality(S) -> S] : \A i, j \in 1..Cardinality(S) : f[i] = f[j] => i = j }

TxtDir == <<"[", "D", "I", "R", "]", SP>>
TxtFile == <<"[", "F", "I", "L", "E", "]", SP>>
TxtEmptyDirectory == <<"DIRECTORY_EMPTY">>

\* the loop over the entries: an entry validate_path rejects is skipped
RECURSIVE Formatted(_, _, _, _)
Formatted(fs, dirs, valid_path, entries) ==
  IF entries = <<>> THEN <<>>
  ELSE (IF ~validate_path(PathJoin(valid_path, Head(entries)), dirs, fs).ok THEN <<>>
        ELSE IF IsDir(fs, PathJoin(valid_path, Head(entries)))
          THEN << TxtDir \o Head(entries) >>
          ELSE << TxtFile \o Head(entries) >>)
       \o Formatted(fs, dirs, valid_path, Tail(entries))

ListingText(formatted) == IF formatted = <<>> THEN TxtEmptyDirectory ELSE Join(formatted, NL)

ListValidated(fs, dirs, valid_path, real) ==
  IF real \notin DOMAIN fs THEN {ToolResult("FileNotFoundError", <<>>, fs)}
  ELSE IF fs[real].kind # "dir" THEN {ToolResult("NotADirectoryError", <<>>, fs)}
  ELSE { ToolResult("ok", ListingText(Formatted(fs, dirs, valid_path, entries)), fs) :
           entries \in Orders(ListDir(fs, real)) }

\* execute_list_directory: the set of its possible outcomes
execute_list_directory(fs, dirs, arguments) ==
  IF {"path"} \subseteq DOMAIN arguments /\ ValidatedPath(fs, dirs, arguments).ok
    THEN ListValidated(fs, dirs, ValidatedPath(fs, dirs, arguments).path,
                       RealPath(fs, ValidatedPath(fs, dirs, arguments).path))
    ELSE {Rejected(fs, {"path"}, arguments, ValidatedPath(fs, dirs, arguments))}

(***************************************************************************)
(* search_files                                                             *)
(***************************************************************************)
\* str.lower, on the letters the names of the model are made of
UpperLetters == <<"D", "E", "F">>
LowerLetters == <<"d", "e", "f">>

LowerChar(c) ==
  IF \E k \in 1..Len(UpperLetters) : UpperLetters[k] = c
    THEN LowerLetters[CHOOSE k \in 1..Len(UpperLetters) : UpperLetters[k] = c]
    ELSE c

Lower(s) == [i \in 1..Len(s) |-> LowerChar(s[i])]

\* fnmatch.fnmatch on POSIX, for patterns made of "*", "?" and literal
\* characters: "*" matches any text, "/" included
RECURSIVE FnMatch(_, _)
FnMatch(name, pat) ==
  IF pat = <<>> THEN name = <<>>
  ELSE IF Head(pat) = "*" THEN \E k \in 0..Len(name) : FnMatch(Drop(name, k), Tail(pat))
  ELSE IF name = <<>> THEN FALSE
  ELSE IF Head(pat) = "?" THEN FnMatch(Tail(name), Tail(pat))
  ELSE Head(name) = Head(pat) /\ FnMatch(Tail(name), Tail(pat))

\* os.path.relpath(full_path, root_path) for a path below the root
RelPath(full_path, root_path) ==
  Drop(full_path, IF root_path = <<SEP>> THEN 1 ELSE Len(root_path) + 1)

\* glob_pattern if "*" in pattern else f"**/{pattern}/**": the test is made
\* on the search pattern
GlobUsed(pattern, glob_pattern) ==
  IF Occurs(pattern, "*") THEN glob_pattern
  ELSE <<"*", "*", SEP>> \o pattern \o <<SEP, "*", "*">>

\* should_exclude
ShouldExclude(relative_path, pattern, exclude_patterns) ==
  \E k \in 1..Len(exclude_patterns) :
    FnMatch(relative_path, GlobUsed(pattern, exclude_patterns[k]))

\* search_files.search: the lists of results it can append, one for every
\* order in which os.listdir can give the names.  An entry validate_path
\* rejects is skipped, an excluded entry is skipped and not descended into.
RECURSIVE SearchDir(_, _, _, _, _, _)
SearchHit(full_path, entry, pattern) ==
  IF Contains(Lower(entry), Lower(pattern)) THEN <<full_path>> ELSE <<>>

SearchBelow(fs, dirs, root_path, full_path, pattern, exclude_patterns) ==
  IF IsDir(fs, full_path)
    THEN SearchDir(fs, dirs, root_path, full_path, pattern, exclude_patterns)
    ELSE {<<>>}

SearchEntry(fs, dirs, root_path, full_path, entry, pattern, exclude_patterns) ==
  IF ~validate_path(full_path, dirs, fs).ok THEN {<<>>}
  ELSE IF ShouldExclude(RelPath(full_path, root_path), pattern, exclude_patterns) THEN {<<>>}
  ELSE { SearchHit(full_path, entry, pattern) \o below :
           below \in SearchBelow(fs, dirs, root_path, full_path, pattern, exclude_patterns) }

\* the loop over the entries in one order: found[entry] is what the entry
\* can add
RECURSIVE InOrder(_, _)
InOrder(found, entries) ==
  IF entries = <<>> THEN {<<>>}
  ELSE { first \o rest : first \in found[Head(entries)],
                         rest \in InOrder(found, Tail(entries)) }

SearchDir(fs, dirs, root_path, current_path, pattern, exclude_patterns) ==
  LET found == [entry \in ListDir(fs, RealPath(fs, current_path)) |->
                  SearchEntry(fs, dirs, root_path, PathJoin(current_path, entry), entry,
                              pattern, exclude_patterns)]
  IN UNION { InOrder(found, entries) : entries \in Orders(DOMAIN found) }

TxtNoMatch == <<"NO_MATCHING_FILES">>

\* search_files, and what execute_search_files makes of its results; the
\* os.listdir of the root is outside every try statement
search_files(fs, dirs, root_path, pattern, exclude_patterns) ==
  IF ~Exists(fs, root_path) THEN {ToolResult("FileNotFoundError", <<>>, fs)}
  ELSE IF ~IsDir(fs, root_path) THEN {ToolResult("NotADirectoryError", <<>>, fs)}
  ELSE { ToolResult("ok", IF results = <<>> THEN TxtNoMatch ELSE Join(results, NL), fs) :
           results \in SearchDir(fs, dirs, root_path, root_path, pattern, exclude_patterns) }

\* args.excludePatterns: the default is []
ExcludePatternsOf(arguments) ==
  IF "excludePatterns" \in DOMAIN arguments THEN arguments["excludePatterns"] ELSE <<>>

\* execute_search_files: the set of its possible outcomes
execute_search_files(fs, dirs, arguments) ==
  IF {"path", "pattern"} \subseteq DOMAIN arguments /\ ValidatedPath(fs, dirs, arguments).ok
    THEN search_files(fs, dirs, ValidatedPath(fs, dirs, arguments).path,
                      arguments["pattern"], ExcludePatternsOf(arguments))
    ELSE {Rejected(fs, {"path", "pattern"}, arguments, ValidatedPath(fs, dirs, arguments))}

(***************************************************************************)
(* get_file_info and directory_tree                                         *)
(***************************************************************************)
\* get_file_stats and the text made of it: of the members, the model has
\* isDirectory and isFile
TxtFileInfo == <<"FILE_INFO">>

execute_get_file_info(fs, dirs, arguments) ==
  IF ~({"path"} \subseteq DOMAIN arguments /\ ValidatedPath(fs, dirs, arguments).ok)
    THEN Rejected(fs, {"path"}, arguments, ValidatedPath(fs, dirs, arguments))
  ELSE IF ~Exists(fs, ValidatedPath(fs, dirs, arguments).path)
    THEN ToolResult("FileNotFoundError", <<>>, fs)
  ELSE ToolResult("ok", TxtFileInfo \o <<KindOf(fs, ValidatedPath(fs, dirs, arguments).path)>>, fs)

\* build_directory_tree: every directory is validated again; the ValueError
\* of a directory below ends the whole call.  The tree is written as the
\* names in the order visited, the children of a directory in brackets.
RECURSIVE BuildTree(_, _, _)
TreeEntry(fs, dirs, entry_path, entry) ==
  IF IsDir(fs, entry_path)
    THEN { IF sub.kind = "ok"
             THEN [kind |-> "ok", text |-> <<entry, "[">> \o sub.text \o <<"]">>]
             ELSE sub :
           sub \in BuildTree(fs, dirs, entry_path) }
    ELSE {[kind |-> "ok", text |-> <<entry>>]}

\* the loop over the entries in one order: an exception ends it
RECURSIVE TreeInOrder(_, _)
TreeInOrder(built, entries) ==
  IF entries = <<>> THEN {[kind |-> "ok", text |-> <<>>]}
  ELSE { IF first.kind # "ok" THEN first
         ELSE IF rest.kind # "ok" THEN rest
         ELSE [kind |-> "ok", text |-> first.text \o rest.text] :
           first \in built[Head(entries)], rest \in TreeInOrder(built, Tail(entries)) }

TreeOf(fs, dirs, valid) ==
  IF ~valid.ok THEN {[kind |-> valid.err, text |-> <<>>]}
  ELSE IF ~Exists(fs, valid.path) THEN {[kind |-> "FileNotFoundError", text |-> <<>>]}
  ELSE IF ~IsDir(fs, valid.path) THEN {[kind |-> "NotADirectoryError", text |-> <<>>]}
  ELSE LET built == [entry \in ListDir(fs, RealPath(fs, valid.path)) |->
                       TreeEntry(fs, dirs, PathJoin(valid.path, entry), entry)]
       IN UNION { TreeInOrder(built, entries) : entries \in Orders(DOMAIN built) }

BuildTree(fs, dirs, current_path) == TreeOf(fs, dirs, validate_path(current_path, dirs, fs))

TxtTree == <<"TREE">>

\* execute_directory_tree: the set of its possible outcomes
execute_directory_tree(fs, dirs, arguments) ==
  IF {"path"} \subseteq DOMAIN arguments /\ ValidatedPath(fs, dirs, arguments).ok
    THEN { ToolResult(tree.kind, IF tree.kind = "ok" THEN TxtTree \o tree.text ELSE <<>>, fs) :
             tree \in BuildTree(fs, dirs, ValidatedPath(fs, dirs, arguments).path) }
    ELSE {Rejected(fs, {"path"}, arguments, ValidatedPath(fs, dirs, arguments))}

\* what edit_file returns or raises, as a tool result; the no-match error
\* carries the oldText it could not locate
EditResult(out) ==
  ToolResult(out.kind, IF out.kind = "NoMatch" THEN out.loop.old ELSE out.text, out.fs)

\* an entry of the registry: the schema, and the execute member, which is
\* named by the function it holds
Tool(name) ==
  [type |-> "function", function |-> [name |-> name], execute |-> <<"execute", name>>]

\* get_filesystem_tools: the eight entries, in the order of the list
get_filesystem_tools ==
  << Tool("read_file"), Tool("write_file"), Tool("edit_file"), Tool("list_directory"),
     Tool("search_files"), Tool("create_directory"), Tool("get_file_info"),
     Tool("directory_tree") >>

\* the execute member of the entry of a name: the set of the outcomes the
\* call can have
ExecuteFunc(tool_name, fs, dirs, arguments) ==
  CASE tool_name = "read_file" -> {execute_read_file(fs, dirs, arguments)}
    [] tool_name = "write_file" -> {execute_write_file(fs, dirs, arguments)}
    [] tool_name = "edit_file" -> {EditResult(execute_edit_file(fs, dirs, arguments))}
    [] tool_name = "create_directory" -> {execute_create_directory(fs, dirs, arguments)}
    [] tool_name = "list_directory" -> execute_list_directory(fs, dirs, arguments)
    [] tool_name = "search_files" -> execute_search_files(fs, dirs, arguments)
    [] tool_name = "get_file_info" -> {execute_get_file_info(fs, dirs, arguments)}
    [] tool_name = "directory_tree" -> execute_directory_tree(fs, dirs, arguments)

(***************************************************************************)
(* Agent                                                                    *)
(***************************************************************************)
\* Python None where a text may stand: no text equals it
None == <<"None">>

\* the completion tokens: two texts of two characters each
Kanryo == <<"kan", "ryo">>
Seikou == <<"sei", "kou">>

\* fixed texts, each named by one atom
SystemPrompt == <<"SYSTEM_PROMPT">>
COMPLETION_CHECK_PROMPT == <<"COMPLETION_CHECK_PROMPT">>
FINAL_SUMMARY_PROMPT == <<"FINAL_SUMMARY_PROMPT">>
MaxIterationsReached == <<"MAX_ITERATIONS_REACHED">>
TxtToolNotFound == <<"TOOL_NOT_FOUND">>
TxtToolRaised == <<"TOOL_RAISED">>

Message(role, content, tool_calls, tool_call_id, name) ==
  [role |-> role, content |-> content, tool_calls |-> tool_calls,
   tool_call_id |-> tool_call_id, name |-> name]

\* Message.to_dict: role, and every other member that is not None
to_dict(m) ==
  [k \in {"role"}
        \cup (IF m.content # None THEN {"content"} ELSE {})
        \cup (IF m.tool_calls # <<>> THEN {"tool_calls"} ELSE {})
        \cup (IF m.tool_call_id # "None" THEN {"tool_call_id"} ELSE {})
        \cup (IF m.name # "None" THEN {"name"} ELSE {}) |-> m[k]]

\* [msg.to_dict() for msg in self.conversation_history]
ToDicts(history) == [k \in 1..Len(history) |-> to_dict(history[k])]

UserMessage(content) == Message("user", content, <<>>, "None", "None")
AssistantMessage(reply) == Message("assistant", reply.content, reply.tool_calls, "None", "None")

\* a tool call as the completion service sends it; the arguments are a JSON
\* text: well formed, and then it denotes an object, or not
ToolCall(id, name, arguments) ==
  [id |-> id, function |-> [name |-> name, arguments |-> arguments]]

JsonText(object) == [wellformed |-> TRUE, object |-> object]
Malformed == [wellformed |-> FALSE, object |-> <<>>]

\* a parser that hands on the text it could not parse
ParseArgumentsKeepText(arguments_str) ==
  IF arguments_str.wellformed THEN arguments_str.object ELSE arguments_str

\* json.loads, and {} on JSONDecodeError
ParseArguments(arguments_str) ==
  IF arguments_str.wellformed THEN arguments_str.object ELSE <<>>

\* a tool boundary that lets the exception of a tool pass with no text
ToolTextUncaught(tool_name, out) ==
  [kind |-> out.kind, text |-> IF out.kind = "ok" THEN out.text ELSE <<>>, fs |-> out.fs]

\* _execute_tool, the try statement: the text the tool returned, or the text
\* made of the exception it raised; the storage afterwards
ToolText(tool_name, out) ==
  [kind |-> out.kind,
   text |-> IF out.kind = "ok" THEN out.text
            ELSE TxtToolRaised \o <<tool_name, out.kind>> \o out.text,
   fs |-> out.fs]

\* next(tool for tool in available_tools if tool["function"]["name"] ==
\* tool_name, None): the index of the entry, 0 for None
ToolDef(registry, tool_name) ==
  IF \E k \in 1..Len(registry) : registry[k].function.name = tool_name
    THEN CHOOSE k \in 1..Len(registry) :
           /\ registry[k].function.name = tool_name
           /\ \A l \in 1..(k - 1) : registry[l].function.name # tool_name
    ELSE 0

\* not tool_def or "execute" not in tool_def
NotExecutable(registry, tool_def) ==
  tool_def = 0 \/ "execute" \notin DOMAIN registry[tool_def]

\* _execute_tool: what it returns (kind names how the call ended) and the
\* storage afterwards
ExecuteTool(registry, fs, dirs, tool_name, arguments) ==
  IF NotExecutable(registry, ToolDef(registry, tool_name))
    THEN {[kind |-> "NotFound", text |-> TxtToolNotFound \o <<tool_name>>, fs |-> fs]}
    ELSE { ToolText(tool_name, out) : out \in ExecuteFunc(tool_name, fs, dirs, arguments) }

\* an advertised entry that keeps the execute member
SchemaWithExecute(tool) == tool

\* {k: v for k, v in tool.items() if k != "execute"}
Schema(tool) == [k \in DOMAIN tool \ {"execute"} |-> tool[k]]

\* Agent.__init__: self.tools
Schemas(registry) == [k \in 1..Len(registry) |-> Schema(registry[k])]

\* the completion service: the number of requests it got, the messages and
\* the tools of the last request, its reply to the summary request, the
\* error it raised
Attached(list) == [attached |-> TRUE, list |-> list]
NotAttached == [attached |-> FALSE, list |-> <<>>]

NoRequest ==
  [n |-> 0, messages |-> <<>>, tools |-> NotAttached,
   reply |-> [content |-> <<>>, tool_calls |-> <<>>], raised |-> "None"]

\* litellm.acompletion(model, messages, temperature[, tools])
acompletion(c, messages, tool_list) ==
  [c EXCEPT !.n = @ + 1, !.messages = messages, !.tools = tool_list]

\* a handler that raises another error than the one it caught
RaiseOther(e) == "RuntimeError"

\* except Exception: ...; raise
Raise(e) == e

\* next(msg for msg in reversed(history) if msg.role == "assistant")
LastAssistantIndex(history) ==
  CHOOSE j \in 1..Len(history) :
    /\ history[j].role = "assistant"
    /\ \A l \in (j + 1)..Len(history) : history[l].role # "assistant"

\* a search that takes the first assistant message of the conversation
FirstAssistant(history) ==
  history[CHOOSE j \in 1..Len(history) :
            /\ history[j].role = "assistant"
            /\ \A l \in 1..(j - 1) : history[l].role # "assistant"]

LastAssistant(history) == history[LastAssistantIndex(history)]

\* `content or ""`
OrEmpty(content) == IF content = None THEN <<>> ELSE content

\* a test after a tool batch that knows one token only
NextCompletesOneToken(reply) ==
  reply.tool_calls = <<>> /\ Contains(OrEmpty(reply.content), Kanryo)

\* a test of the check round that does not look at the tool calls
CheckCompletesByTextOnly(reply) == Contains(OrEmpty(reply.content), Kanryo)

\* the completion test of the check round
CheckCompletes(reply) ==
  reply.tool_calls = <<>> /\ Contains(OrEmpty(reply.content), Kanryo)

\* a test after a tool batch that does not look at the tool calls
NextCompletesByTextOnly(reply) ==
  /\ reply.content # None /\ reply.content # <<>>
  /\ (Contains(reply.content, Kanryo) \/ Contains(reply.content, Seikou))

\* the completion test after a tool batch
NextCompletes(reply) ==
  /\ reply.tool_calls = <<>>
  /\ reply.content # None /\ reply.content # <<>>
  /\ (Contains(reply.content, Kanryo) \/ Contains(reply.content, Seikou))

\* a loop that runs once more than max_iterations
RangeExhaustedLate(i, n) == i >= n + 1

\* a tool call that runs on the storage as it was when the batch started
ToolViewStale(fs, snapshot) == snapshot

\* a tool message put directly behind the assistant message it answers
AnswerToolCallFirst(history, tool_message) ==
  SubSeq(history, 1, LastAssistantIndex(history)) \o <<tool_message>>
  \o SubSeq(history, LastAssistantIndex(history) + 1, Len(history))

\* for i in range(self.max_iterations): the loop is over
RangeExhausted(i, n) == i >= n

\* the storage a tool call runs on: the storage as it is when the call starts
ToolView(fs, snapshot) == fs

\* self.conversation_history.append(tool_message)
AnswerToolCall(history, tool_message) == Append(history, tool_message)

\* the most calls of run on one Agent
MaxRuns == 2

NoBatch == [calls |-> <<>>, next |-> 0, snapshot |-> <<>>, left |-> <<>>, kinds |-> <<>>]
NoTool == [index |-> 0, id |-> "None", name |-> "None", arguments |-> <<>>, view |-> <<>>]

(***************************************************************************)
(* Agent.run                                                                *)
(***************************************************************************)
\* a planning phase that keeps the conversation of the run before
KeepConversation(history) == history

\* _planning_phase: self.conversation_history = []
NewConversation(history) == <<>>

\* run, up to the completion request of _planning_phase.  An Agent can be run
\* again when a run has returned or raised; the loop counter, the value
\* returned and the exception raised belong to the call.
Run(prompt) ==
  /\ pc \in {"idle", "done", "failed"}
  /\ runs < MaxRuns
  /\ runs' = runs + 1
  /\ conversation_history' =
       NewConversation(conversation_history)
       \o <<Message("system", SystemPrompt, <<>>, "None", "None"), UserMessage(prompt)>>
  /\ completion' = acompletion(NoRequest, ToDicts(conversation_history'), Attached(tools))
  /\ iteration' = 0
  /\ result' = None
  /\ error' = "None"
  /\ batch' = NoBatch
  /\ running' = NoTool
  /\ pc' = "plan_call"
  /\ UNCHANGED <<fs_vars, available_tools, tools, sh, tl, max_iterations>>

\* litellm.acompletion raises: the phases log the error and raise it again,
\* run has no handler
CompletionRaises(e) ==
  /\ pc \in {"plan_call", "check_call", "next_call", "final_call"}
  /\ completion' = [completion EXCEPT !.raised = e]
  /\ pc' = "failed"
  /\ error' = Raise(e)
  /\ UNCHANGED <<fs_vars, other_vars, conversation_history, max_iterations, iteration,
                 result, batch, running>>

\* the reply to the planning request
PlanReply(reply) ==
  /\ pc = "plan_call"
  /\ conversation_history' = Append(conversation_history, AssistantMessage(reply))
  /\ pc' = "iter"
  /\ UNCHANGED <<fs_vars, other_vars, completion, max_iterations, iteration, result,
                 error, batch, running>>

\* the loop of run has no iteration left: the fixed text is returned
Exhausted ==
  /\ pc = "iter"
  /\ RangeExhausted(iteration, max_iterations)
  /\ pc' = "done"
  /\ result' = MaxIterationsReached
  /\ UNCHANGED <<fs_vars, other_vars, completion, conversation_history, max_iterations,
                 iteration, error, batch, running>>

\* an iteration whose most recent assistant message has no tool calls: the
\* check prompt is appended and the completion service is asked
BeginCheckRound ==
  /\ pc = "iter"
  /\ ~RangeExhausted(iteration, max_iterations)
  /\ LastAssistant(conversation_history).tool_calls = <<>>
  /\ iteration' = iteration + 1
  /\ conversation_history' = Append(conversation_history, UserMessage(COMPLETION_CHECK_PROMPT))
  /\ completion' = acompletion(completion, ToDicts(conversation_history'), Attached(tools))
  /\ pc' = "check_call"
  /\ UNCHANGED <<fs_vars, other_vars, max_iterations, result, error, batch, running>>

\* an iteration whose most recent assistant message has tool calls
BeginToolBatch ==
  /\ pc = "iter"
  /\ ~RangeExhausted(iteration, max_iterations)
  /\ LastAssistant(conversation_history).tool_calls # <<>>
  /\ iteration' = iteration + 1
  /\ batch' = [calls |-> LastAssistant(conversation_history).tool_calls, next |-> 1,
               snapshot |-> storage, left |-> storage, kinds |-> <<>>]
  /\ pc' = "tool"
  /\ UNCHANGED <<fs_vars, other_vars, completion, conversation_history, max_iterations,
                 result, error, running>>

\* the loop over the tool calls: the arguments are parsed and _execute_tool
\* is awaited
StartTool ==
  /\ pc = "tool"
  /\ running.index = 0
  /\ running' = [index |-> batch.next,
                 id |-> batch.calls[batch.next].id,
                 name |-> batch.calls[batch.next].function.name,
                 arguments |-> ParseArguments(batch.calls[batch.next].function.arguments),
                 view |-> ToolView(storage, batch.snapshot)]
  /\ UNCHANGED <<fs_vars, other_vars, completion, pc, conversation_history,
                 max_iterations, iteration, result, error, batch>>

\* a loop over the tool calls that is left after its first call
BatchDoneEarly(b) == TRUE

\* for tool_call in assistant_message.tool_calls: the call that returned was
\* the last one
BatchDone(b) == b.next = Len(b.calls)

\* _execute_tool returns: the tool message is appended; after the last call
\* of the batch the completion service is asked
FinishTool ==
  /\ pc = "tool"
  /\ running.index # 0
  /\ \E out \in ExecuteTool(available_tools, running.view, allowed_directories,
                            running.name, running.arguments) :
       /\ storage' = out.fs
       /\ conversation_history' =
            AnswerToolCall(conversation_history,
                           Message("tool", out.text, <<>>, running.id, running.name))
       /\ batch' = [batch EXCEPT !.next = @ + 1, !.left = out.fs,
                                 !.kinds = Append(@, out.kind)]
  /\ running' = NoTool
  /\ pc' = IF BatchDone(batch) THEN "next_call" ELSE "tool"
  /\ completion' =
       IF BatchDone(batch)
         THEN acompletion(completion, ToDicts(conversation_history'), Attached(tools))
         ELSE completion
  /\ UNCHANGED <<allowed_directories, vp, ed, other_vars, max_iterations, iteration,
                 result, error>>

\* what run does with the value of _execution_phase: on True the summary
\* prompt is appended and the completion service is asked without tools
AfterPhase(history, completed) ==
  /\ conversation_history' =
       IF completed THEN Append(history, UserMessage(FINAL_SUMMARY_PROMPT)) ELSE history
  /\ completion' =
       IF completed THEN acompletion(completion, ToDicts(conversation_history'), NotAttached)
       ELSE completion
  /\ pc' = IF completed THEN "final_call" ELSE "iter"

\* the reply of the check round
CheckReply(reply) ==
  /\ pc = "check_call"
  /\ AfterPhase(Append(conversation_history, AssistantMessage(reply)), CheckCompletes(reply))
  /\ UNCHANGED <<fs_vars, other_vars, max_iterations, iteration, result, error, batch,
                 running>>

\* the reply to the request that follows a tool batch
NextReply(reply) ==
  /\ pc = "next_call"
  /\ AfterPhase(Append(conversation_history, AssistantMessage(reply)), NextCompletes(reply))
  /\ UNCHANGED <<fs_vars, other_vars, max_iterations, iteration, result, error, batch,
                 running>>

\* the reply to the summary request: its content is returned; len() of a
\* content that is None raises TypeError
FinalReply(reply) ==
  /\ pc = "final_call"
  /\ completion' = [completion EXCEPT !.reply = reply]
  /\ IF reply.content = None
       THEN pc' = "failed" /\ error' = "TypeError" /\ UNCHANGED result
       ELSE pc' = "done" /\ result' = reply.content /\ UNCHANGED error
  /\ UNCHANGED <<fs_vars, other_vars, conversation_history, max_iterations, iteration,
                 batch, running>>

(***************************************************************************)
(* The completion service: the replies it may give                          *)
(***************************************************************************)
TextDone == <<"o", "k">> \o Kanryo
TextSuccess == Seikou \o <<"!">>
TextOther == <<"h", "m">>

EditAB == EditOperation(<<"a">>, <<"b">>)
EditBC == EditOperation(<<"b">>, <<"c">>)

\* two edits of one file: the second finds its text only after the first
BatchEdits ==
  << ToolCall("c1", "edit_file", JsonText([path |-> pRf, edits |-> <<EditAB>>])),
     ToolCall("c2", "edit_file", JsonText([path |-> pRf, edits |-> <<EditBC>>])) >>

\* a directory is made and its parent listed
BatchDirs ==
  << ToolCall("c1", "create_directory", JsonText([path |-> pRd \o <<SEP, "n">>])),
     ToolCall("c2", "list_directory", JsonText([path |-> pRd])) >>

\* a name the registry does not have, and arguments that are no JSON
BatchBad ==
  << ToolCall("c1", "no_such_tool", JsonText([path |-> pRf])),
     ToolCall("c2", "schema_only", JsonText([path |-> pRf])),
     ToolCall("c3", "edit_file", Malformed),
     ToolCall("c4", "create_directory", JsonText([path |-> pOs])),
     ToolCall("c5", "create_directory", JsonText([path |-> pRd])) >>

\* a file written and read
BatchWriteRead ==
  << ToolCall("c1", "write_file", JsonText([path |-> pRn, content |-> <<"x">>])),
     ToolCall("c2", "read_file", JsonText([path |-> pRn])) >>

Reply(content, tool_calls) == [content |-> content, tool_calls |-> tool_calls]

Replies ==
  { Reply(None, BatchEdits), Reply(TextDone, BatchDirs), Reply(TextOther, BatchBad),
    Reply(<<>>, BatchWriteRead),
    Reply(None, <<>>), Reply(TextDone, <<>>), Reply(TextSuccess, <<>>), Reply(TextOther, <<>>) }

Prompts == { <<"p">>, <<"q">> }

\* the errors a completion request may end with
CompletionErrors == { "APIConnectionError", "RateLimitError" }

\* an entry of the registry that has a schema and no execute member
SchemaOnly == [type |-> "function", function |-> [name |-> "schema_only"]]

\* the registries an Agent is constructed with
Registries == { get_filesystem_tools, <<SchemaOnly>> \o get_filesystem_tools }

\* the largest max_iterations an Agent is constructed with
MaxIter == 2

\* Agent.__init__: the default of max_iterations
DefaultMaxIterations == 10

\* an Agent that is constructed and not run
AgentIdle ==
  /\ pc = "idle"
  /\ conversation_history = <<>>
  /\ iteration = 0
  /\ result = None
  /\ error = "None"
  /\ batch = NoBatch
  /\ running = NoTool
  /\ completion = NoRequest

(***************************************************************************)
(* shell_command.py: execute_shell_command_async                            *)
(***************************************************************************)
\* JSON values of an argument object
JStr(v) == [t |-> "str", v |-> v]
JInt(v) == [t |-> "int", v |-> v]
JNull == [t |-> "null", v |-> 0]

\* ShellCommandArgs: the default of timeout
DefaultTimeout == 60

\* asyncio.wait_for(process.wait(), timeout=5)
GraceSeconds == 5

IsDigits(s) == s # <<>> /\ \A k \in 1..Len(s) : s[k] \in {"0", "1", "2", "3", "4", "5", "6", "7", "8", "9"}

DigitValue(d) == CHOOSE n \in 0..9 : Digit(n) = d

\* int(s) of a text of digits
RECURSIVE ParseInt(_, _)
ParseInt(s, acc) ==
  IF s = <<>> THEN acc ELSE ParseInt(Tail(s), 10 * acc + DigitValue(Head(s)))

\* str(n) of an integer
StrInt(n) == IF n < 0 THEN <<"-">> \o FormatInt(0 - n) ELSE FormatInt(n)

Invalid(field) == [ok |-> FALSE, err |-> <<field>>, command |-> <<>>, timeout |-> 0,
                   workspace |-> None]

\* command: str, required, min_length=1
CommandValid(arguments) ==
  /\ "command" \in DOMAIN arguments
  /\ arguments["command"].t = "str"
  /\ Len(arguments["command"].v) >= 1

\* timeout: int, default 60; an integer, or a text of digits, which is converted
TimeoutValid(arguments) ==
  "timeout" \in DOMAIN arguments =>
    \/ arguments["timeout"].t = "int"
    \/ arguments["timeout"].t = "str" /\ IsDigits(arguments["timeout"].v)

TimeoutOf(arguments) ==
  IF "timeout" \notin DOMAIN arguments THEN DefaultTimeout
  ELSE IF arguments["timeout"].t = "int" THEN arguments["timeout"].v
  ELSE ParseInt(arguments["timeout"].v, 0)

\* workspace: Optional[str], default None
WorkspaceValid(arguments) ==
  "workspace" \in DOMAIN arguments => arguments["workspace"].t \in {"str", "null"}

WorkspaceOf(arguments) ==
  IF "workspace" \in DOMAIN arguments /\ arguments["workspace"].t = "str"
    THEN arguments["workspace"].v
    ELSE None

\* ShellCommandArgs.model_validate(arguments)
ShellCommandArgs(arguments) ==
  IF ~CommandValid(arguments) THEN Invalid("command")
  ELSE IF ~TimeoutValid(arguments) THEN Invalid("timeout")
  ELSE IF ~WorkspaceValid(arguments) THEN Invalid("workspace")
  ELSE [ok |-> TRUE, err |-> <<>>, command |-> arguments["command"].v,
        timeout |-> TimeoutOf(arguments), workspace |-> WorkspaceOf(arguments)]

\* the fixed parts of the texts the function returns, each named by one atom
TxtArgError == <<"ARGUMENT_ERROR">>
TxtCommand == <<"COMMAND_QUOTE">>
TxtTimedOut == <<"QUOTE_TIMED_OUT">>
TxtSeconds == <<"SECONDS">>
TxtFailedWorkspace == <<"QUOTE_FAILED_COMMAND_OR_WORKSPACE">>
TxtNotFoundCheckPath == <<"QUOTE_NOT_FOUND_CHECK_PATH">>
TxtRaised == <<"QUOTE_RAISED">>
TxtNoOutput == <<"NO_OUTPUT">>
TxtStdout == <<"S", "t", "d", "o", "u", "t", ":", NL>>
TxtStderr == <<"S", "t", "d", "e", "r", "r", ":", NL>>
TxtReturnCode == <<"R", "e", "t", "u", "r", "n", " ", "c", "o", "d", "e", ":", " ">>

ArgErrorMessage(e) == TxtArgError \o e

TimeoutMessage(args) ==
  TxtCommand \o args.command \o TxtTimedOut \o StrInt(args.timeout) \o TxtSeconds

\* `if args.workspace:` is false for None and for the empty text
NotFoundMessage(args) ==
  IF args.workspace # None /\ args.workspace # <<>>
    THEN TxtCommand \o args.command \o TxtFailedWorkspace \o args.workspace
         \o TxtNotFoundCheckPath
    ELSE TxtCommand \o args.command \o TxtNotFoundCheckPath

ErrorMessage(args, e) == TxtCommand \o args.command \o TxtRaised \o <<e>>

\* bytes.decode(errors="replace"): a byte that is no UTF-8 becomes U+FFFD
Decode(bytes) == [k \in 1..Len(bytes) |-> IF bytes[k] = "xFF" THEN "uFFFD" ELSE bytes[k]]

\* an output that always shows the return code
OutputWithCode(stdout, stderr, returncode) ==
  (IF stdout # <<>> THEN TxtStdout \o Decode(stdout) \o <<NL>> ELSE <<>>)
  \o (IF stderr # <<>> THEN TxtStderr \o Decode(stderr) \o <<NL>> ELSE <<>>)
  \o TxtReturnCode \o StrInt(returncode) \o <<NL>>

\* the text built after communicate() returned
Output(stdout, stderr, returncode) ==
  (IF stdout # <<>> THEN TxtStdout \o Decode(stdout) \o <<NL>> ELSE <<>>)
  \o (IF stderr # <<>> THEN TxtStderr \o Decode(stderr) \o <<NL>> ELSE <<>>)
  \o (IF returncode # 0 THEN TxtReturnCode \o StrInt(returncode) \o <<NL>> ELSE <<>>)

\* return output if output else the fixed text
OutputOrFixed(output) == IF output # <<>> THEN output ELSE TxtNoOutput

\* asyncio.create_subprocess_shell(command, cwd=workspace): the exception it
\* raises, "None" when the shell is started.  The shell is /bin/sh; cwd is
\* entered before the shell is executed.
CreateSubprocessShell(fs, args, shell_present) ==
  IF Contains(args.command, <<"x00">>) THEN "ValueError"
  ELSE IF args.workspace = <<>> THEN "FileNotFoundError"
  ELSE IF args.workspace # None /\ ~Exists(fs, AbsPath(args.workspace)) THEN "FileNotFoundError"
  ELSE IF args.workspace # None /\ ~IsDir(fs, AbsPath(args.workspace)) THEN "NotADirectoryError"
  ELSE IF ~shell_present THEN "FileNotFoundError"
  ELSE "None"

\* no call of the shell tool yet.  alive: the shell runs; pipes: some
\* process holds the write ends of stdout or stderr; code: the exit status;
\* signals: what was sent to the shell; elapsed: the seconds of the wait
ShIdle ==
  [pc |-> "idle", args |-> Invalid("none"), alive |-> FALSE, pipes |-> FALSE, code |-> 0,
   stdout |-> <<>>, stderr |-> <<>>, signals |-> <<>>, elapsed |-> 0, timedout |-> FALSE,
   outcome |-> "none", result |-> None, error |-> "None"]

\* the function returns a text
Return(s, outcome, text) == [s EXCEPT !.pc = "returned", !.outcome = outcome, !.result = text]

\* the transport is finished (connection_lost was called, its _proc is None,
\* the waiters of wait() are woken) when the shell has exited and the pipes
\* are closed
Finished(s) == ~s.alive /\ ~s.pipes

\* the except clauses behind the try statement, for an exception of
\* create_subprocess_shell
SpawnFailed(s, args, e) ==
  IF e = "FileNotFoundError" THEN Return([s EXCEPT !.args = args], "notfound", NotFoundMessage(args))
  ELSE Return([s EXCEPT !.args = args], "error", ErrorMessage(args, e))

Spawned(s, args) ==
  [s EXCEPT !.pc = "communicate", !.args = args, !.alive = TRUE, !.pipes = TRUE]

\* the call, up to `await asyncio.wait_for(process.communicate(), ...)`
ShellCalled(s, fs, args, shell_present) ==
  IF ~args.ok THEN Return([s EXCEPT !.args = args], "validation", ArgErrorMessage(args.err))
  ELSE IF CreateSubprocessShell(fs, args, shell_present) # "None"
    THEN SpawnFailed(s, args, CreateSubprocessShell(fs, args, shell_present))
  ELSE Spawned(s, args)

ShellCall(arguments, shell_present) ==
  /\ sh.pc = "idle"
  /\ sh' = ShellCalled(sh, storage, ShellCommandArgs(arguments), shell_present)
  /\ UNCHANGED shell_rest

\* the shell exits: by itself, or because of a SIGTERM it does not ignore
ShellExits(stdout, stderr, code) ==
  /\ sh.pc \in {"communicate", "grace", "expired"}
  /\ sh.alive
  /\ sh.pc # "communicate" => stdout = <<>> /\ stderr = <<>> /\ code = 0 - 15
  /\ sh' = [sh EXCEPT !.alive = FALSE, !.stdout = stdout, !.stderr = stderr, !.code = code]
  /\ UNCHANGED shell_rest

\* SIGKILL ends the shell
ShellKilled ==
  /\ sh.pc = "killed"
  /\ sh.alive
  /\ sh' = [sh EXCEPT !.alive = FALSE, !.code = 0 - 9]
  /\ UNCHANGED shell_rest

\* the last process that holds the pipes closes them; processes the shell
\* started may hold them after the shell has exited
PipesClose ==
  /\ sh.pc \in {"communicate", "grace", "expired", "killed"}
  /\ ~sh.alive /\ sh.pipes
  /\ sh' = [sh EXCEPT !.pipes = FALSE]
  /\ UNCHANGED shell_rest

\* a second passes while the function waits with a timeout; a wait that can
\* return does not last
Tick ==
  /\ ~Finished(sh)
  /\ \/ sh.pc = "communicate" /\ sh.elapsed < sh.args.timeout
     \/ sh.pc = "grace" /\ sh.elapsed < GraceSeconds
  /\ sh' = [sh EXCEPT !.elapsed = @ + 1]
  /\ UNCHANGED shell_rest

\* communicate() returns: the output is formatted
CommunicateReturns ==
  /\ sh.pc = "communicate"
  /\ Finished(sh)
  /\ sh' = Return(sh, "normal", OutputOrFixed(Output(sh.stdout, sh.stderr, sh.code)))
  /\ UNCHANGED shell_rest

\* wait_for raises TimeoutError: when process.returncode is None the shell
\* gets SIGTERM and wait() is awaited for at most GraceSeconds
TimedOut(s) ==
  IF s.alive
    THEN [s EXCEPT !.pc = "grace", !.timedout = TRUE, !.signals = Append(@, "TERM"),
                   !.elapsed = 0]
    ELSE Return([s EXCEPT !.timedout = TRUE], "timeout", TimeoutMessage(s.args))

Timeout ==
  /\ sh.pc = "communicate"
  /\ sh.elapsed >= sh.args.timeout
  /\ ~Finished(sh) \/ sh.args.timeout <= 0
  /\ sh' = TimedOut(sh)
  /\ UNCHANGED shell_rest

\* process.wait() returns within the grace period
GraceWaitReturns ==
  /\ sh.pc = "grace"
  /\ Finished(sh)
  /\ sh' = Return(sh, "timeout", TimeoutMessage(sh.args))
  /\ UNCHANGED shell_rest

\* the grace period is over and wait() has not returned: wait_for cancels
\* it and raises TimeoutError; until the handler runs the transport may finish
GraceExpires ==
  /\ sh.pc = "grace"
  /\ sh.elapsed >= GraceSeconds
  /\ ~Finished(sh)
  /\ sh' = [sh EXCEPT !.pc = "expired"]
  /\ UNCHANGED shell_rest

\* process.kill() in the handler of the inner TimeoutError, and `await
\* process.wait()`.  kill() raises ProcessLookupError when the transport is
\* finished; no except clause is around it.  wait() returns at once when the
\* return code is known, and otherwise when the transport is finished.
Killed(s) ==
  IF Finished(s) THEN [s EXCEPT !.pc = "raised", !.error = "ProcessLookupError"]
  ELSE IF ~s.alive
    THEN Return([s EXCEPT !.signals = Append(@, "KILL")], "timeout", TimeoutMessage(s.args))
  ELSE [s EXCEPT !.pc = "killed", !.signals = Append(@, "KILL")]

Kill ==
  /\ sh.pc = "expired"
  /\ sh' = Killed(sh)
  /\ UNCHANGED shell_rest

\* the wait() behind kill() returns
KillWaitReturns ==
  /\ sh.pc = "killed"
  /\ Finished(sh)
  /\ sh' = Return(sh, "timeout", TimeoutMessage(sh.args))
  /\ UNCHANGED shell_rest

(***************************************************************************)
(* Calls of initialize_filesystem_settings and of validate_path             *)
(***************************************************************************)
\* the candidate directories a caller may configure
CandidateDirs == { pR, pO, pRf, <<"/", "z">>, <<"/", "r", "/">> }

\* the longest list of candidate directories
MaxDirs == 2

DirLists == UNION { [1..n -> CandidateDirs] : n \in 0..MaxDirs }

NoToolCall == [name |-> "None", arguments |-> <<>>, dirs |-> <<>>, pre |-> <<>>,
               kind |-> "none", text |-> <<>>]

NoCall == [req |-> <<>>, dirs |-> <<>>, res |-> Err("none")]

NoEdit == [args |-> [none |-> TRUE], pre |-> InitStorage, kind |-> "none",
           text |-> <<>>, loop |-> NoLoop]

\* initialize_filesystem_settings(directories)
InitializeFilesystemSettings(directories) ==
  /\ allowed_directories' = ValidDirectories(directories, storage)
  /\ tl' = [name |-> "initialize_filesystem_settings", arguments |-> directories,
            dirs |-> allowed_directories', pre |-> storage, kind |-> "ok", text |-> <<>>]
  /\ vp' = NoCall
  /\ UNCHANGED <<storage, ed, agent_state>>

RequestPaths ==
  { pR, pRf, pRd, pRl, pRk, pRn, pO, pOs, pRx, pRxf,
    <<"/", "r", "/", ".", ".", "/", "o", "/", "s">>,   \* /r/../o/s
    <<"/", "r", "/", "m", "/", "n">>,                  \* /r/m/n: no parent
    <<"/", "r", "/", "k", "/", "s">>,                  \* /r/k/s: through a link
    <<"/", "r", "/", "k", "/", "n">>,                  \* /r/k/n: new, through a link
    <<"/", "r", "x", "/", "n">>,                       \* /rx/n: new, in the sibling
    <<"/", "o", "/", "n">>,                            \* /o/n: new, outside
    <<"f">>, <<"~", "/", "r">>, <<"~">>, <<>> }

ValidatePathCall(p) ==
  /\ vp' = [req |-> p, dirs |-> allowed_directories,
            res |-> validate_path(p, allowed_directories, storage)]
  /\ tl' = [name |-> "validate_path", arguments |-> p, dirs |-> allowed_directories,
            pre |-> storage, kind |-> IF vp'.res.ok THEN "ok" ELSE vp'.res.err,
            text |-> vp'.res.path]
  /\ UNCHANGED <<allowed_directories, storage, ed, agent_state>>

InitValidate ==
  /\ allowed_directories = <<>>
  /\ storage = InitStorage
  /\ vp = NoCall
  /\ ed = NoEdit
  /\ max_iterations = DefaultMaxIterations
  /\ available_tools = get_filesystem_tools
  /\ tools = Schemas(available_tools)
  /\ AgentIdle
  /\ sh = ShIdle
  /\ tl = NoToolCall
  /\ runs = 0

NextValidate ==
  \/ \E directories \in DirLists : InitializeFilesystemSettings(directories)
  \/ \E p \in RequestPaths : ValidatePathCall(p)

SpecValidate == InitValidate /\ [][NextValidate]_vars

(***************************************************************************)
(* Calls of the edit_file tool on a sandbox whose root is /r                *)
(***************************************************************************)
EditChoices ==
  { EditAB,                                                   \* occurs twice
    EditOperation(<<"b", CR, NL, SP, "b">>, <<"c", CR, NL, SP, "c">>),
    EditOperation(<<"z", "z">>, <<"c">>),                     \* occurs nowhere
    EditOperation(<<SP, SP, "a">>, <<"c">>) }                 \* only a trimmed line

\* the longest list of edits in one call
MaxEdits == 2

EditLists == UNION { [1..n -> EditChoices] : n \in 0..MaxEdits }

EditArguments ==
  { [path |-> pRf, edits |-> e, dryRun |-> d] : e \in EditLists, d \in BOOLEAN }
  \cup { [path |-> p, edits |-> <<EditAB>>, dryRun |-> FALSE] : p \in {pRd, pRn, pOs} }
  \cup { [path |-> pRf, edits |-> <<EditAB>>], [edits |-> <<>>] }

EditFileCall(arguments) ==
  \E out \in {execute_edit_file(storage, allowed_directories, arguments)} :
    /\ ed' = [args |-> arguments, pre |-> storage, kind |-> out.kind,
              text |-> out.text, loop |-> out.loop]
    /\ storage' = out.fs
    /\ UNCHANGED <<allowed_directories, vp, agent_vars>>

InitEdit ==
  /\ allowed_directories = <<pR>>
  /\ storage = InitStorage
  /\ vp = NoCall
  /\ ed = NoEdit
  /\ max_iterations = DefaultMaxIterations
  /\ available_tools = get_filesystem_tools
  /\ tools = Schemas(available_tools)
  /\ AgentIdle
  /\ sh = ShIdle
  /\ tl = NoToolCall
  /\ runs = 0

NextEdit == \E arguments \in EditArguments : EditFileCall(arguments)

SpecEdit == InitEdit /\ [][NextEdit]_vars

(***************************************************************************)
(* Calls of the shell tool                                                  *)
(***************************************************************************)
\* the largest timeout a caller gives
MaxTimeout == 2

ShellCommands == { JStr(<<"c">>), JStr(<<"c", "x00">>), JStr(<<>>), JInt(7) }

ShellArguments ==
  { [command |-> JStr(<<"c">>), timeout |-> JInt(t)] : t \in (0 - 1)..MaxTimeout }
  \cup { [command |-> c] : c \in ShellCommands }
  \cup { [command |-> JStr(<<"c">>), timeout |-> t] : t \in {JStr(<<"1">>), JStr(<<"x">>), JNull} }
  \cup { [command |-> JStr(<<"c">>), timeout |-> JInt(1), workspace |-> w] :
           w \in {JNull, JInt(7), JStr(pR), JStr(pRn), JStr(pRf), JStr(<<>>)} }
  \cup { <<>> }

\* what the shell may have written when it exits, and its exit status
Outputs == { <<>>, <<"o">>, <<"xFF", "o">> }
ErrOutputs == { <<>>, <<"e">> }
ExitCodes == { 0, 3, 0 - 9, 0 - 15 }

InitShell ==
  /\ allowed_directories = <<pR>>
  /\ storage = InitStorage
  /\ vp = NoCall
  /\ ed = NoEdit
  /\ max_iterations = DefaultMaxIterations
  /\ available_tools = get_filesystem_tools
  /\ tools = Schemas(available_tools)
  /\ AgentIdle
  /\ sh = ShIdle
  /\ tl = NoToolCall
  /\ runs = 0

\* the steps of the function and of its timers
ShellStep ==
  \/ Tick
  \/ CommunicateReturns
  \/ Timeout
  \/ GraceWaitReturns
  \/ GraceExpires
  \/ Kill
  \/ KillWaitReturns

NextShell ==
  \/ \E arguments \in ShellArguments, shell_present \in BOOLEAN :
       ShellCall(arguments, shell_present)
  \/ \E stdout \in Outputs, stderr \in ErrOutputs, code \in ExitCodes :
       ShellExits(stdout, stderr, code)
  \/ ShellKilled
  \/ PipesClose
  \/ ShellStep

SpecShell == InitShell /\ [][NextShell]_vars

\* the function is scheduled, the timers fire and SIGKILL ends the shell;
\* nothing makes the shell exit by itself or the pipes close
SpecShellFair == SpecShell /\ WF_vars(ShellStep) /\ WF_vars(ShellKilled)

(***************************************************************************)
(* Calls of the filesystem tools through Agent._execute_tool                *)
(***************************************************************************)
pRdF == pRd \o <<SEP, "F">>
pRde == pRd \o <<SEP, "e">>
pRdef == pRde \o <<SEP, "f">>

\* the storage with a file and a directory in /r/d
ToolStorage ==
  InitStorage @@ (pRdF :> FileNode(<<"x">>)) @@ (pRde :> DirNode)
  @@ (pRdef :> FileNode(<<"y">>))

\* the lists of candidate directories a caller configures: an empty one,
\* missing candidates, a file, a root written with a trailing separator, a
\* link to a directory
ToolDirLists ==
  { <<>>, <<pR>>, <<pRf, <<SEP, "z">> >>, <<pO, pR>>, << <<SEP, "z">>, pR>>,
    <<pR \o <<SEP>>, pRf>>, <<pRk>> }

SearchPatterns == { <<"f">>, <<"e">>, <<"*">> }
ExcludeLists == { <<>>, << <<"d">> >>, << <<"d", "*">> >>, << <<"z">>, <<"?">> >> }

\* the calls: the name of the tool and the arguments object
ToolCalls ==
  { <<"read_file", [path |-> p]>> : p \in {pRf, pRn, pOs} }
  \cup { <<"write_file", [path |-> p, content |-> <<"x">>]>> : p \in {pRf, pRn, pOs} }
  \cup { <<"edit_file", [path |-> p, edits |-> <<EditAB>>, dryRun |-> TRUE]>> :
           p \in {pRf, pOs} }
  \cup { <<"create_directory", [path |-> p]>> :
           p \in { pRd \o <<SEP, "n">>, pO \o <<SEP, "n">>, pRk \o <<SEP, "n">> } }
  \cup { <<"list_directory", [path |-> p]>> : p \in {pR, pRd, pRk, pRf, pO} }
  \cup { <<"search_files", [path |-> p, pattern |-> <<"f">>]>> : p \in {pRd, pRf, pO} }
  \cup { <<"search_files", [path |-> pR, pattern |-> pattern, excludePatterns |-> e]>> :
           pattern \in SearchPatterns, e \in ExcludeLists }
  \cup { <<"get_file_info", [path |-> p]>> : p \in {pRf, pRl, pRn, pOs} }
  \cup { <<"directory_tree", [path |-> p]>> : p \in {pRd, pRk, pO} }
  \cup { <<name, <<>> >> : name \in {"write_file", "search_files", "directory_tree"} }

\* Agent._execute_tool(tool_name, arguments)
ToolCalled(tool_name, arguments) ==
  \E out \in ExecuteTool(available_tools, storage, allowed_directories, tool_name, arguments) :
    /\ tl' = [name |-> tool_name, arguments |-> arguments, dirs |-> allowed_directories,
              pre |-> storage, kind |-> out.kind, text |-> out.text]
    /\ storage' = out.fs
    /\ vp' = NoCall
    /\ UNCHANGED <<allowed_directories, ed, agent_state>>

InitTools ==
  /\ allowed_directories = <<>>
  /\ storage = ToolStorage
  /\ vp = NoCall
  /\ ed = NoEdit
  /\ max_iterations = DefaultMaxIterations
  /\ available_tools = get_filesystem_tools
  /\ tools = Schemas(available_tools)
  /\ AgentIdle
  /\ sh = ShIdle
  /\ tl = NoToolCall
  /\ runs = 0

NextTools ==
  \/ \E directories \in ToolDirLists : InitializeFilesystemSettings(directories)
  \/ \E p \in {pRf, pOs, pRn} : ValidatePathCall(p)
  \/ \E call \in ToolCalls : ToolCalled(call[1], call[2])

SpecTools == InitTools /\ [][NextTools]_vars

(***************************************************************************)
(* Calls of the edit_file tool on files that hold backticks                 *)
(***************************************************************************)
\* what /r/f holds at the start
FenceTexts ==
  { <<"a">>,
    <<BQ, BQ>>,
    <<BQ, BQ, BQ, NL, "a">>,
    <<"a", NL, BQ, BQ, BQ, BQ>>,
    <<BQ, BQ, BQ, BQ, BQ, NL, "a">> }

FenceEdits ==
  { EditAB,
    EditOperation(<<"a">>, <<BQ, BQ, BQ>>),
    EditOperation(<<"b">>, <<BQ>>),
    EditOperation(<<BQ, NL>>, <<>>) }

FenceEditLists == UNION { [1..n -> FenceEdits] : n \in 0..MaxEdits }

FenceArguments ==
  { [path |-> pRf, edits |-> e, dryRun |-> d] : e \in FenceEditLists, d \in BOOLEAN }

InitFence ==
  /\ allowed_directories = <<pR>>
  /\ \E text \in FenceTexts : storage = [InitStorage EXCEPT ![pRf] = FileNode(text)]
  /\ vp = NoCall
  /\ ed = NoEdit
  /\ max_iterations = DefaultMaxIterations
  /\ available_tools = get_filesystem_tools
  /\ tools = Schemas(available_tools)
  /\ AgentIdle
  /\ sh = ShIdle
  /\ tl = NoToolCall
  /\ runs = 0

NextFence == \E arguments \in FenceArguments : EditFileCall(arguments)

SpecFence == InitFence /\ [][NextFence]_vars

(***************************************************************************)
(* Runs of an Agent whose tools work on a sandbox whose root is /r          *)
(***************************************************************************)
Init ==
  /\ allowed_directories = <<pR>>
  /\ storage = InitStorage
  /\ vp = NoCall
  /\ ed = NoEdit
  /\ max_iterations \in 0..MaxIter
  /\ available_tools \in Registries
  /\ tools = Schemas(available_tools)
  /\ AgentIdle
  /\ sh = ShIdle
  /\ tl = NoToolCall
  /\ runs = 0

Next ==
  \/ \E prompt \in Prompts : Run(prompt)
  \/ \E reply \in Replies : PlanReply(reply)
  \/ \E e \in CompletionErrors : CompletionRaises(e)
  \/ Exhausted
  \/ BeginCheckRound
  \/ BeginToolBatch
  \/ StartTool
  \/ FinishTool
  \/ \E reply \in Replies : CheckReply(reply)
  \/ \E reply \in Replies : NextReply(reply)
  \/ \E reply \in Replies : FinalReply(reply)

Spec == Init /\ [][Next]_vars

\* the steps of run between the calls it awaits and on the return of a
\* request: run is one coroutine, and it goes on whenever the call it awaits
\* has returned or raised
RunStep ==
  \/ \E reply \in Replies : PlanReply(reply)
  \/ \E e \in CompletionErrors : CompletionRaises(e)
  \/ Exhausted
  \/ BeginCheckRound
  \/ BeginToolBatch
  \/ StartTool
  \/ \E reply \in Replies : CheckReply(reply)
  \/ \E reply \in Replies : NextReply(reply)
  \/ \E reply \in Replies : FinalReply(reply)

\* the tool that is executing returns.  FinishTool is the only step from a
\* state in which a tool is executing, and _execute_tool has an outcome for
\* every call, so that these are the steps of FinishTool.
ToolReturns ==
  /\ pc = "tool"
  /\ running.index # 0
  /\ running' = NoTool
  /\ pc' \in {"tool", "next_call"}

\* every call that run awaits returns or raises
SpecFair == Spec /\ WF_vars(RunStep) /\ WF_running(ToolReturns)

(***************************************************************************)
(* Properties of validate_path                                              *)
(***************************************************************************)
\* path is the root or lies below it, component by component
Inside(path, root) ==
  path = root \/ StartsWith(path, IF root[Len(root)] = SEP THEN root ELSE root \o <<SEP>>)

InsideSome(path, dirs) == \E k \in 1..Len(dirs) : Inside(path, dirs[k])

\* the normalized absolute form of a requested path, "~" standing for the
\* home directory
NormalizedAbsolute(p) ==
  AbsPath(IF p = <<"~">> \/ StartsWith(p, <<"~", SEP>>) THEN Home \o Drop(p, 1) ELSE p)

Called == vp.res # Err("none")

\* C1: a requested path whose normalized absolute form lies outside every
\* allowed root (neither a root nor a descendant of one) is refused with the
\* access-denied error, and no path is returned.
C1_OutsideEveryRootDenied ==
  (Called /\ ~InsideSome(NormalizedAbsolute(vp.req), vp.dirs))
    => vp.res = Err("AccessDenied")

\* C2: a request for an existing symbolic link that lies inside an allowed
\* root and whose real target lies outside all allowed roots is refused with
\* the access-denied error; neither the link nor the target is returned.
C2_LinkLeavingRootsDenied ==
  (/\ Called
   /\ IsLink(storage, NormalizedAbsolute(vp.req))
   /\ Exists(storage, NormalizedAbsolute(vp.req))
   /\ InsideSome(NormalizedAbsolute(vp.req), vp.dirs)
   /\ ~InsideSome(RealPath(storage, NormalizedAbsolute(vp.req)), vp.dirs))
    => vp.res = Err("AccessDenied")

\* C3: for a requested path inside an allowed root that does not exist,
\* validate_path returns a path only if the real path of the parent
\* directory is inside an allowed root, and when the parent directory does
\* not exist it fails with the not-found error.
C3_NewFileNeedsParent ==
  (/\ Called
   /\ InsideSome(NormalizedAbsolute(vp.req), vp.dirs)
   /\ ~Exists(storage, NormalizedAbsolute(vp.req)))
    => /\ vp.res.ok =>
            InsideSome(RealPath(storage, DirName(NormalizedAbsolute(vp.req))), vp.dirs)
       /\ ~Exists(storage, DirName(NormalizedAbsolute(vp.req)))
            => vp.res = Err("ParentNotFound")

(***************************************************************************)
(* Properties of Agent.run                                                  *)
(***************************************************************************)
AllRepliesCarryTools ==
  \A j \in 1..Len(conversation_history) :
    conversation_history[j].role = "assistant"
      => conversation_history[j].tool_calls # <<>>

\* the tool batches executed: the assistant messages that a tool message follows
ToolRounds ==
  Cardinality({ j \in 1..(Len(conversation_history) - 1) :
                  /\ conversation_history[j].role = "assistant"
                  /\ conversation_history[j + 1].role = "tool" })

FinalSummaryRequested ==
  \E j \in 1..Len(conversation_history) :
    conversation_history[j] = UserMessage(FINAL_SUMMARY_PROMPT)

\* C4: when every reply of the completion service carries tool calls, run
\* returns the fixed exhaustion text after exactly max_iterations tool
\* rounds; it raises nothing and asks for no final summary.
C4_ExhaustionAfterMaxIterations ==
  AllRepliesCarryTools =>
    /\ pc = "failed" => error \in CompletionErrors /\ error = completion.raised
    /\ pc \notin {"check_call", "final_call"}
    /\ ~FinalSummaryRequested
    /\ ToolRounds <= max_iterations
    /\ pc = "done" => /\ result = MaxIterationsReached
                      /\ ToolRounds = max_iterations

C4_Witness ==
  /\ pc = "done"
  /\ max_iterations > 0
  /\ AllRepliesCarryTools
  /\ result = MaxIterationsReached
  /\ ToolRounds = max_iterations

\* the tool messages that directly follow message j
ToolRun(j) ==
  CHOOSE k \in 0..(Len(conversation_history) - j) :
    /\ \A l \in 1..k : conversation_history[j + l].role = "tool"
    /\ j + k = Len(conversation_history) \/ conversation_history[j + k + 1].role # "tool"

Answers(j, l) ==
  /\ conversation_history[j + l].tool_call_id = conversation_history[j].tool_calls[l].id
  /\ conversation_history[j + l].name = conversation_history[j].tool_calls[l].function.name

\* C5: the tool calls of an assistant message are executed one after
\* another in the issued order, and the tool message answering a call is in
\* the conversation before the next call of the batch begins: the tool
\* messages behind an assistant message answer its calls in order, and while
\* call i is executing exactly the calls before it are answered.
C5_ToolMessagesInIssuedOrder ==
  /\ \A j \in 1..Len(conversation_history) :
       /\ conversation_history[j].role = "assistant" =>
            /\ ToolRun(j) <= Len(conversation_history[j].tool_calls)
            /\ \A l \in 1..ToolRun(j) : Answers(j, l)
       /\ conversation_history[j].role = "tool" =>
            j > 1 /\ conversation_history[j - 1].role \in {"assistant", "tool"}
  /\ running.index # 0 =>
       /\ running.id = batch.calls[running.index].id
       /\ Len(conversation_history)
            = LastAssistantIndex(conversation_history) + running.index - 1
       /\ ToolRun(LastAssistantIndex(conversation_history)) = running.index - 1

C5_Witness ==
  /\ running.index = 2
  /\ conversation_history[Len(conversation_history)].role = "tool"
  /\ conversation_history[Len(conversation_history)].tool_call_id = batch.calls[1].id
  /\ running.id = batch.calls[2].id

\* C6: a later tool call of a batch sees the storage effects of the earlier
\* ones: the storage a call runs on is exactly the storage the call before
\* it left.
C6_LaterCallSeesEarlierEffects ==
  /\ pc = "tool" => storage = batch.left
  /\ running.index # 0 => running.view = batch.left

C6_Witness ==
  /\ running.index = 2
  /\ running.name = "edit_file"
  /\ batch.snapshot[pRf].content = FileText
  /\ running.view[pRf].content = <<"b", NL, SP, "b">>

(***************************************************************************)
(* Properties of apply_file_edits                                           *)
(***************************************************************************)
\* the call of edit_file that ed records reached the loop over the edits
ReachedLoop == ed.kind \in {"ok", "NoMatch", "AttributeError"}

NotDryRun == "dryRun" \in DOMAIN ed.args /\ ~ed.args["dryRun"]

\* C7: when some edit of the list fails, also after earlier edits were
\* applied in memory, the file is left as it was before the call.
C7_FailedEditsLeaveFile ==
  ed.kind \notin {"none", "ok"} => storage = ed.pre

C7_Witness ==
  /\ ed.kind = "NoMatch"
  /\ NotDryRun
  /\ Len(ed.loop.trace) = 2
  /\ ed.loop.content # ed.loop.trace[1]
  /\ storage = ed.pre

\* edit i of the recorded call, its texts with line endings normalized
OldOf(i) == normalize_line_endings(ed.args["edits"][i].oldText)
NewOf(i) == normalize_line_endings(ed.args["edits"][i].newText)

\* the edit can be located in the content: verbatim, or by a window of
\* lines that are equal after trimming
Locatable(content, old) ==
  Contains(content, old) \/ FuzzyWindows(Split(content, NL), Split(old, NL)) # {}

\* C8: the call fails with the no-match error, naming the oldText, exactly
\* when some edit can be located by neither pass in the content the edits
\* before it produced; an edit that either pass locates does not make the
\* call fail.
C8_NoMatchIffNotLocatable ==
  ReachedLoop =>
    /\ ed.kind = "NoMatch" <=>
         \E i \in 1..Len(ed.loop.passes) : ~Locatable(ed.loop.trace[i], OldOf(i))
    /\ ed.kind = "NoMatch" => ed.loop.old = ed.args["edits"][Len(ed.loop.passes)].oldText
    /\ (\A i \in 1..Len(ed.loop.passes) : Locatable(ed.loop.trace[i], OldOf(i)))
         => ed.kind = "ok"

RECURSIVE Pieces(_, _, _)
Pieces(s, old, cur) ==
  IF Len(s) < Len(old) THEN <<cur \o s>>
  ELSE IF StartsWith(s, old) THEN <<cur>> \o Pieces(Drop(s, Len(old)), old, <<>>)
  ELSE Pieces(Tail(s), old, Append(cur, Head(s)))

RECURSIVE Glue(_, _)
Glue(pieces, new) ==
  IF Len(pieces) = 1 THEN pieces[1] ELSE pieces[1] \o new \o Glue(Tail(pieces), new)

\* C10: when the oldText of an edit occurs verbatim in the current content,
\* the content after the edit is the current content with every occurrence
\* replaced by newText and nothing else changed, and the edit is settled by
\* the exact pass: the fuzzy pass is not tried.
C10_ExactPassReplacesEveryOccurrence ==
  ReachedLoop =>
    \A i \in 1..Len(ed.loop.passes) :
      Contains(ed.loop.trace[i], OldOf(i)) =>
        /\ ed.loop.passes[i] = "exact"
        /\ Len(ed.loop.trace) > i
        /\ ed.loop.trace[i + 1] = Glue(Pieces(ed.loop.trace[i], OldOf(i), <<>>), NewOf(i))

C10_Witness ==
  /\ ed.kind = "ok"
  /\ Len(ed.loop.passes) = 1
  /\ ed.loop.passes[1] = "exact"
  /\ ed.loop.trace[1] = <<"a", NL, SP, "a">>
  /\ ed.loop.trace[2] = <<"b", NL, SP, "b">>

\* the edit is one for the fuzzy pass: its oldText does not occur verbatim in
\* the content and a window of lines equals its lines after trimming
FuzzyOnly(content, old) ==
  /\ ~Contains(content, old)
  /\ FuzzyWindows(Split(content, NL), Split(old, NL)) # {}

\* the leading whitespace of a line
IndentOf(line) == SubSeq(line, 1, Len(line) - Len(LStrip(line)))

\* the first window, top to bottom
FirstWindow(content, old) ==
  CHOOSE w \in FuzzyWindows(Split(content, NL), Split(old, NL)) :
    \A v \in FuzzyWindows(Split(content, NL), Split(old, NL)) : w <= v

\* C11: when the oldText of an edit does not occur verbatim but a window of
\* content lines equals its lines after trimming, the call goes on with the
\* first such window replaced: the lines before the window are kept, and the
\* first replacement line is the window's leading whitespace followed by the
\* trimmed first line of newText.
C11_FuzzyWindowReplaced ==
  ReachedLoop =>
    \A i \in 1..Len(ed.loop.passes) :
      FuzzyOnly(ed.loop.trace[i], OldOf(i)) =>
        /\ Len(ed.loop.trace) > i
        /\ SubSeq(Split(ed.loop.trace[i + 1], NL), 1, FirstWindow(ed.loop.trace[i], OldOf(i)))
             = SubSeq(Split(ed.loop.trace[i], NL), 1, FirstWindow(ed.loop.trace[i], OldOf(i)))
        /\ Split(ed.loop.trace[i + 1], NL)[FirstWindow(ed.loop.trace[i], OldOf(i)) + 1]
             = IndentOf(Split(ed.loop.trace[i], NL)[FirstWindow(ed.loop.trace[i], OldOf(i)) + 1])
               \o LStrip(Split(NewOf(i), NL)[1])

(***************************************************************************)
(* Properties of the tool boundary and of the completion requests           *)
(***************************************************************************)
\* the tool message that answers call l of the batch being processed
Answer(l) == conversation_history[LastAssistantIndex(conversation_history) + l]

\* the text describes how call l ended: a name the registry cannot execute,
\* or the error the tool raised
Describes(text, l) ==
  /\ text # None /\ text # <<>>
  /\ batch.kinds[l] = "NotFound" =>
       text = TxtToolNotFound \o <<batch.calls[l].function.name>>
  /\ batch.kinds[l] \notin {"ok", "NotFound"} =>
       StartsWith(text, TxtToolRaised \o <<batch.calls[l].function.name, batch.kinds[l]>>)

\* C12: every error at the tool boundary (a name the registry does not have,
\* an entry without execute, an error the tool raises) becomes the text of
\* the tool message of that call; the run does not fail in the batch, the
\* calls behind the failed one are executed, and the completion service is
\* asked with all the tool messages afterwards.
C12_ToolErrorsBecomeToolMessages ==
  /\ [](pc \in {"tool", "next_call"} =>
         /\ Len(batch.kinds) = batch.next - 1
         /\ \A l \in 1..Len(batch.kinds) :
              /\ Answer(l).role = "tool"
              /\ Answer(l).tool_call_id = batch.calls[l].id
              /\ Describes(Answer(l).content, l)
         /\ pc = "next_call" =>
              /\ Len(batch.kinds) = Len(batch.calls)
              /\ completion.messages = ToDicts(conversation_history)
              /\ completion.tools = Attached(tools))
  /\ [][pc = "tool" =>
         /\ pc' \in {"tool", "next_call"}
         /\ pc' = "next_call" <=> (running.index = Len(batch.calls))
         /\ error' = error]_vars

C12_Witness ==
  /\ pc = "next_call"
  /\ available_tools[1] = SchemaOnly
  /\ batch.kinds = <<"NotFound", "NotFound", "ValidationError", "AccessDenied", "ok">>
  /\ batch.calls[2].function.name = "schema_only"
  /\ Answer(4).content = TxtToolRaised \o <<"create_directory", "AccessDenied">>

\* C13: when a completion request raises, run ends by raising that same
\* error: the conversation is the one the failing request carried, no text
\* is returned, and nothing happens afterwards in that run (no request, no
\* tool call, no message): the only step left is the start of another run.
C13_CompletionErrorPropagates ==
  /\ [](completion.raised # "None" =>
         /\ pc = "failed"
         /\ error = completion.raised
         /\ result = None
         /\ completion.messages = ToDicts(conversation_history)
         /\ running = NoTool)
  /\ [][(completion.raised = "None" /\ pc # "failed") \/ runs' = runs + 1]_vars

C13_Witness ==
  /\ pc = "failed"
  /\ completion.raised = "RateLimitError"
  /\ error = "RateLimitError"
  /\ completion.n = 3
  /\ ToolRounds = 1
  /\ ~FinalSummaryRequested

\* C14: run ends by raising only when a completion request raised: when
\* every request is answered, whatever the replies and the outcomes of the
\* tools, run returns a text.
C14_FailedOnlyByCompletionError ==
  pc = "failed" => completion.raised # "None"

\* the assistant message a step appends to the conversation
Appended == conversation_history'[Len(conversation_history) + 1]

HasToken(content, tokens) == \E t \in tokens : Contains(OrEmpty(content), t)

\* the step answers a request of the loop: it completes the run exactly when
\* the reply has no tool calls and its text has one of the tokens, and goes
\* on with the loop otherwise
CompletesExactlyOn(tokens) ==
  /\ pc' \in {"final_call", "iter"}
  /\ pc' = "final_call" <=> (Appended.tool_calls = <<>> /\ HasToken(Appended.content, tokens))

\* C15: the run becomes Completed only by a reply without tool calls whose
\* text contains a completion token: the token of a check round is kan-ryo,
\* the tokens after a tool batch are kan-ryo and sei-kou; a reply with tool
\* calls never completes the run, and a reply without tool calls and without
\* token leaves the loop running.
C15_CompletedOnlyByTokenReply ==
  [][/\ pc' = "final_call" => pc \in {"check_call", "next_call"}
     /\ (pc = "check_call" /\ pc' # "failed") => CompletesExactlyOn({Kanryo})
     /\ (pc = "next_call" /\ pc' # "failed") => CompletesExactlyOn({Kanryo, Seikou})]_vars

C15_Witness ==
  /\ pc = "final_call"
  /\ Len(conversation_history) > 3
  /\ conversation_history[Len(conversation_history) - 1].content = TextSuccess
  /\ conversation_history[Len(conversation_history) - 1].tool_calls = <<>>
  /\ conversation_history[Len(conversation_history) - 2].role = "tool"

\* the final-summary user messages of the conversation
SummaryRequests ==
  { j \in 1..Len(conversation_history) :
      conversation_history[j] = UserMessage(FINAL_SUMMARY_PROMPT) }

\* C16: on Completed one final-summary user message is appended, as the last
\* message; one more request is made, with the whole conversation and no
\* tool list; no tool is executed; and when the request is answered run
\* returns the text of the reply.
C16_SummaryRequestedOnceAndReturned ==
  /\ Cardinality(SummaryRequests) <= 1
  /\ pc = "final_call" <=> (SummaryRequests # {} /\ result = None /\ error = "None")
  /\ SummaryRequests # {} =>
       /\ SummaryRequests = {Len(conversation_history)}
       /\ completion.messages = ToDicts(conversation_history)
       /\ completion.tools = NotAttached
       /\ running = NoTool
       /\ (pc # "final_call" /\ completion.raised = "None") =>
            /\ pc = "done"
            /\ result = completion.reply.content

\* entry is the registry entry tool without its execute member
Advertises(entry, tool) ==
  /\ DOMAIN entry = DOMAIN tool \ {"execute"}
  /\ \A m \in DOMAIN entry : entry[m] = tool[m]

\* C20: the tool list of every request holds, for every entry of the
\* registry and in its order, the entry without its execute member; no
\* request carries an execute member, and the entries of the registry keep
\* theirs.
C20_ExecuteNeverAdvertised ==
  /\ Len(tools) = Len(available_tools)
  /\ \A k \in 1..Len(tools) : Advertises(tools[k], available_tools[k])
  /\ completion.tools.attached => completion.tools.list = tools
  /\ \A k \in 1..Len(completion.tools.list) :
       "execute" \notin DOMAIN completion.tools.list[k]
  /\ available_tools \in Registries
  /\ \A k \in 1..Len(available_tools) :
       available_tools[k] # SchemaOnly => "execute" \in DOMAIN available_tools[k]

C20_Witness ==
  /\ completion.n = 2
  /\ completion.tools.attached
  /\ Len(completion.tools.list) = Len(get_filesystem_tools) + 1
  /\ completion.tools.list[2] = [type |-> "function", function |-> [name |-> "read_file"]]
  /\ available_tools[2].execute = <<"execute", "read_file">>

(***************************************************************************)
(* Properties of execute_shell_command_async                                *)
(***************************************************************************)
\* C17: when the command has not finished within the timeout, the shell is
\* first asked to terminate, the wait for it lasts at most GraceSeconds, it
\* is killed only after that, and in every case the call returns the timeout
\* message, with the shell no longer running; the call does not hang.
C17_TimeoutAnsweredAfterTermination ==
  /\ [](sh.timedout =>
         /\ sh.pc # "raised"
         /\ sh.pc = "grace" => sh.elapsed <= GraceSeconds
         /\ sh.signals \in {<<>>, <<"TERM">>, <<"TERM", "KILL">>}
         /\ sh.pc = "returned" => (sh.result = TimeoutMessage(sh.args) /\ ~sh.alive))
  /\ (sh.timedout ~> sh.pc = "returned")

\* the validated arguments of the calls
ValidShellArgs ==
  { ShellCommandArgs(a) : a \in { b \in ShellArguments : ShellCommandArgs(b).ok } }

\* the texts a call can return for an error of the class
MessagesOf(class) ==
  CASE class = "validation" ->
         { ArgErrorMessage(<<f>>) : f \in {"command", "timeout", "workspace"} }
    [] class = "notfound" -> { NotFoundMessage(a) : a \in ValidShellArgs }
    [] class = "timeout" -> { TimeoutMessage(a) : a \in ValidShellArgs }
    [] class = "error" ->
         { ErrorMessage(a, e) : a \in ValidShellArgs, e \in {"ValueError", "NotADirectoryError"} }

ErrorClasses == {"validation", "notfound", "timeout", "error"}

\* C18: the call never raises: whatever the arguments and whatever the
\* process does it ends by returning a text; and the texts of the four error
\* classes differ: the text returned for an error of one class is a text of
\* that class and of no other.
C18_ShellNeverRaises ==
  /\ sh.pc # "raised"
  /\ sh.error = "None"
  /\ sh.pc = "returned" =>
       /\ sh.result # None /\ sh.result # <<>>
       /\ sh.outcome \in ErrorClasses =>
            { c \in ErrorClasses : sh.result \in MessagesOf(c) } = {sh.outcome}

PartIf(present, text) == IF present THEN text ELSE <<>>

\* C19: after a normal completion the text holds the stdout block exactly
\* when stdout is not empty, the stderr block exactly when stderr is not
\* empty and the return code exactly when it is not zero, in this order;
\* when all three are absent it is the fixed no-output text; it is never
\* empty.
C19_NormalOutputBlocks ==
  sh.outcome = "normal" =>
    /\ sh.result # <<>>
    /\ (sh.stdout = <<>> /\ sh.stderr = <<>> /\ sh.code = 0) <=> sh.result = TxtNoOutput
    /\ (sh.stdout # <<>> \/ sh.stderr # <<>> \/ sh.code # 0) =>
         sh.result = PartIf(sh.stdout # <<>>, TxtStdout \o Decode(sh.stdout) \o <<NL>>)
                     \o PartIf(sh.stderr # <<>>, TxtStderr \o Decode(sh.stderr) \o <<NL>>)
                     \o PartIf(sh.code # 0, TxtReturnCode \o StrInt(sh.code) \o <<NL>>)

C19_Witness ==
  /\ sh.pc = "returned"
  /\ sh.outcome = "normal"
  /\ sh.stdout = <<"xFF", "o">>
  /\ sh.stderr = <<>>
  /\ sh.code = 0
  /\ sh.result = TxtStdout \o <<"uFFFD", "o", NL>>

(***************************************************************************)
(* Properties of the filesystem tools                                       *)
(***************************************************************************)
\* the path member of the arguments of the last call, and what
\* validate_path made of it when the call started
PathGiven == "path" \in DOMAIN tl.arguments
ValidatedGiven == validate_path(tl.arguments["path"], tl.dirs, tl.pre)

\* the text execute_write_file returns
TxtFileWritten == <<"FILE_WRITTEN">>

\* C21: write_file on an authorized path leaves the file with the given
\* content and returns the success text; read_file on an authorized existing
\* file returns the content of the file.
C21_WriteAndReadFile ==
  /\ (/\ tl.name = "write_file"
      /\ {"path", "content"} \subseteq DOMAIN tl.arguments
      /\ ValidatedGiven.ok)
       => /\ tl.kind = "ok"
          /\ tl.text = TxtFileWritten \o tl.arguments["path"]
          /\ IsFile(storage, ValidatedGiven.path)
          /\ storage[RealPath(storage, ValidatedGiven.path)].content = tl.arguments["content"]
  /\ (/\ tl.name = "read_file"
      /\ PathGiven
      /\ ValidatedGiven.ok
      /\ IsFile(tl.pre, ValidatedGiven.path))
       => /\ tl.kind = "ok"
          /\ tl.text = ReadText(tl.pre[RealPath(tl.pre, ValidatedGiven.path)].content)

\* an existing entry the rules of the validator authorize: its path and its
\* real path lie inside an allowed root
AuthorizedEntry(fs, dirs, entry_path) ==
  InsideSome(entry_path, dirs) /\ InsideSome(RealPath(fs, entry_path), dirs)

\* the lines of a listing
ListedLines == IF tl.text = TxtEmptyDirectory THEN <<>> ELSE Split(tl.text, NL)

\* the line list_directory writes for an entry
LineOf(fs, valid_path, entry) ==
  (IF IsDir(fs, PathJoin(valid_path, entry)) THEN TxtDir ELSE TxtFile) \o entry

\* C22: list_directory of a directory that passed validation does not fail;
\* it lists, once each and with the right annotation, the entries that are
\* authorized, and no entry that is not (a link in the directory whose
\* target lies outside all allowed roots is left out).
C22_OnlyAuthorizedEntriesListed ==
  (/\ tl.name = "list_directory"
   /\ PathGiven
   /\ ValidatedGiven.ok
   /\ IsDir(tl.pre, ValidatedGiven.path))
    => /\ tl.kind = "ok"
       /\ \A i, j \in 1..Len(ListedLines) : ListedLines[i] = ListedLines[j] => i = j
       /\ { ListedLines[i] : i \in 1..Len(ListedLines) }
            = { LineOf(tl.pre, ValidatedGiven.path, entry) :
                  entry \in { e \in ListDir(tl.pre, RealPath(tl.pre, ValidatedGiven.path)) :
                                AuthorizedEntry(tl.pre, tl.dirs,
                                                PathJoin(ValidatedGiven.path, e)) } }

\* the relative path matches one of the exclude patterns
Excluded(relative_path, exclude_patterns) ==
  \E k \in 1..Len(exclude_patterns) : FnMatch(relative_path, exclude_patterns[k])

\* the entries a search has to return: below the root, every entry that
\* passes validation and is not excluded is returned when its name contains
\* the pattern, letter case ignored, and is descended into when it is a
\* directory
RECURSIVE Matching(_, _, _, _, _, _)
MatchingAt(fs, dirs, root_path, full_path, pattern, exclude_patterns) ==
  IF \/ ~validate_path(full_path, dirs, fs).ok
     \/ Excluded(RelPath(full_path, root_path), exclude_patterns)
    THEN {}
    ELSE (IF Contains(Lower(BaseName(full_path)), Lower(pattern)) THEN {full_path} ELSE {})
         \cup (IF IsDir(fs, full_path)
                 THEN Matching(fs, dirs, root_path, full_path, pattern, exclude_patterns)
                 ELSE {})

Matching(fs, dirs, root_path, current_path, pattern, exclude_patterns) ==
  UNION { MatchingAt(fs, dirs, root_path, PathJoin(current_path, entry), pattern,
                     exclude_patterns) :
            entry \in ListDir(fs, RealPath(fs, current_path)) }

\* the paths a search returned
Found == IF tl.text = TxtNoMatch THEN {} ELSE { Split(tl.text, NL)[i] : i \in 1..Len(Split(tl.text, NL)) }

\* C23: search_files on a directory that passed validation returns exactly
\* the entries below it whose name contains the pattern, letter case
\* ignored, without the entries whose relative path matches an exclude
\* pattern (and what lies below them) and without the entries validation
\* rejects.
C23_SearchReturnsMatchesNotExcluded ==
  (/\ tl.name = "search_files"
   /\ {"path", "pattern"} \subseteq DOMAIN tl.arguments
   /\ ValidatedGiven.ok
   /\ IsDir(tl.pre, ValidatedGiven.path))
    => /\ tl.kind = "ok"
       /\ Found = Matching(tl.pre, tl.dirs, ValidatedGiven.path, ValidatedGiven.path,
                           tl.arguments["pattern"], ExcludePatternsOf(tl.arguments))

\* the names of the tools of get_filesystem_tools
ToolNames == { get_filesystem_tools[k].function.name : k \in 1..Len(get_filesystem_tools) }

\* C24: when validate_path rejects the path a filesystem tool is called
\* with, the call leaves the storage as it was (nothing is created, changed
\* or truncated) and what the conversation gets is the error text of the
\* tool boundary.
C24_RejectedPathLeavesStorage ==
  (/\ tl.name \in ToolNames
   /\ PathGiven
   /\ ~ValidatedGiven.ok)
    => /\ storage = tl.pre
       /\ tl.kind # "ok"
       /\ StartsWith(tl.text, TxtToolRaised \o <<tl.name>>)

C24_Witness ==
  /\ tl.name = "create_directory"
  /\ tl.arguments = [path |-> pO \o <<SEP, "n">>]
  /\ tl.dirs = <<pR>>
  /\ tl.kind = "AccessDenied"
  /\ tl.text = TxtToolRaised \o <<"create_directory", "AccessDenied">>
  /\ ~Exists(storage, pO \o <<SEP, "n">>)

\* the canonical forms of the candidates, in the order given
Canonical(directories) ==
  [k \in 1..Len(directories) |-> NormalizedAbsolute(directories[k])]

\* the candidates that exist and are directories
ExistingDirectories(directories, fs) ==
  SelectSeq(Canonical(directories), LAMBDA d : Exists(fs, d) /\ IsDir(fs, d))

EditsGiven == ed.args["edits"]
AllButLast ==
  apply_file_edits(ed.pre, validate_path(ed.args["path"], allowed_directories, ed.pre).path,
                   SubSeq(EditsGiven, 1, Len(EditsGiven) - 1), FALSE)
LastAlone ==
  apply_file_edits(AllButLast.fs,
                   validate_path(ed.args["path"], allowed_directories, ed.pre).path,
                   <<EditsGiven[Len(EditsGiven)]>>, DryRunOf(ed.args))

\* C26: a call with the edits e1 .. en succeeds exactly when the call with
\* e1 .. e(n-1) and then the call with en on its result succeed, and the
\* final content (and the file, unless dry_run) is the same: every edit is
\* applied to the content the edits before it produced.
C26_EditsAppliedInOrder ==
  (/\ ed.kind \in {"ok", "NoMatch", "AttributeError"}
   /\ DryRunOf(ed.args) = FALSE
   /\ Len(EditsGiven) >= 1)
    => /\ ed.kind = "ok" <=> (AllButLast.kind = "ok" /\ LastAlone.kind = "ok")
       /\ ed.kind = "ok" => /\ ed.loop.content = LastAlone.loop.content
                            /\ storage = LastAlone.fs

\* the second edit is found only in the text the first one put in
C26_Witness ==
  /\ ed.kind = "ok"
  /\ DryRunOf(ed.args) = FALSE
  /\ Len(EditsGiven) = 2
  /\ EditsGiven[1] = EditAB
  /\ ~Contains(normalize_line_endings(ReadText(ed.pre[pRf].content)),
               normalize_line_endings(EditsGiven[2].oldText))
  /\ storage[pRf].content = <<"c", NL, SP, "c">>

(***************************************************************************)
(* Properties of the conversation                                           *)
(***************************************************************************)
\* the place of the nearest assistant message before message l, 0 if none
AssistantBefore(l) ==
  IF \E j \in 1..(l - 1) : conversation_history[j].role = "assistant"
    THEN CHOOSE j \in 1..(l - 1) :
           /\ conversation_history[j].role = "assistant"
           /\ \A m \in (j + 1)..(l - 1) : conversation_history[m].role # "assistant"
    ELSE 0

\* message l is the tool message of the call at its place in the batch of
\* assistant message j, and between them are tool messages only
AnswersInPlace(j, l) ==
  /\ j > 0
  /\ \A m \in (j + 1)..l : conversation_history[m].role = "tool"
  /\ l - j <= Len(conversation_history[j].tool_calls)
  /\ conversation_history[l].tool_call_id = conversation_history[j].tool_calls[l - j].id

\* C27: every tool message stands behind the nearest assistant message
\* before it, with tool messages only in between, and carries the id of the
\* tool call of that message that has its place: the tool messages of a
\* batch carry the ids of the batch in the issued order.
C27_ToolMessagesAnswerNearestBatch ==
  \A l \in 1..Len(conversation_history) :
    conversation_history[l].role = "tool" => AnswersInPlace(AssistantBefore(l), l)

\* two batches of two assistant messages, each answered behind its message
C27_Witness ==
  /\ Len(conversation_history) = 8
  /\ conversation_history[3].tool_calls = BatchEdits
  /\ conversation_history[5].tool_call_id = "c2"
  /\ conversation_history[6].tool_calls = BatchDirs
  /\ conversation_history[7].tool_call_id = "c1"
  /\ conversation_history[8].tool_call_id = "c2"
  /\ conversation_history[8].name = "list_directory"

\* the conversation a run starts with
FirstMessages(prompt) ==
  <<Message("system", SystemPrompt, <<>>, "None", "None"), UserMessage(prompt)>>

IsPrefixOf(early, late) ==
  Len(early) <= Len(late) /\ SubSeq(late, 1, Len(early)) = early

\* C28: within a run the conversation only grows at its end, and it starts
\* with the system message followed by the prompt of the run; a run starts
\* from the empty conversation, so that its first request carries the system
\* message and its prompt only, and every request carries messages of the
\* conversation of its run only.
C28_ConversationAppendOnlyAndReset ==
  /\ [](conversation_history # <<>> =>
         /\ \E prompt \in Prompts :
              IsPrefixOf(FirstMessages(prompt), conversation_history)
         /\ IsPrefixOf(completion.messages, ToDicts(conversation_history)))
  /\ [][IF runs' = runs + 1
          THEN /\ \E prompt \in Prompts : conversation_history' = FirstMessages(prompt)
               /\ completion'.messages = ToDicts(conversation_history')
          ELSE IsPrefixOf(conversation_history, conversation_history')]_vars

\* a second run, after a first one that left messages behind its prompt,
\* which has run a tool batch and asks the completion service for the third
\* time
C28_Witness ==
  /\ runs = 2
  /\ pc = "next_call"
  /\ completion.n = 3
  /\ Len(conversation_history) > 5
  /\ conversation_history[2].content = <<"q">>

\* the reply of a check round arrives in this step, and it has tool calls
CheckReplyWithCalls ==
  /\ pc = "check_call"
  /\ Len(conversation_history') > Len(conversation_history)
  /\ conversation_history'[Len(conversation_history) + 1].tool_calls # <<>>

\* an iteration is about to start after a check round whose reply had tool
\* calls
AfterCheckWithCalls ==
  /\ pc = "iter"
  /\ Len(conversation_history) >= 2
  /\ conversation_history[Len(conversation_history)].role = "assistant"
  /\ conversation_history[Len(conversation_history)].tool_calls # <<>>
  /\ conversation_history[Len(conversation_history) - 1]
       = UserMessage(COMPLETION_CHECK_PROMPT)

\* the tool batch that followed a check round is over
BatchOfCheckReplyDone ==
  /\ pc = "next_call"
  /\ conversation_history[LastAssistantIndex(conversation_history) - 1]
       = UserMessage(COMPLETION_CHECK_PROMPT)

\* C29: a reply of the check round that has tool calls ends the iteration as
\* not completed: the reply is appended and nothing else, no tool is started
\* and the storage is as it was.  The iteration after it, when there is one,
\* starts the batch of exactly the calls of that reply without a message
\* being appended or a request being sent, and when the batch is over each of
\* these calls and no other has its tool message; when there is none, run
\* returns and the calls are not executed.
C29_CheckReplyCallsRunNextIteration ==
  /\ [][CheckReplyWithCalls =>
          /\ pc' = "iter"
          /\ conversation_history'
               = Append(conversation_history,
                        conversation_history'[Len(conversation_history) + 1])
          /\ UNCHANGED <<storage, running, batch, iteration>>]_vars
  /\ [][AfterCheckWithCalls =>
          IF iteration < max_iterations
            THEN /\ pc' = "tool"
                 /\ iteration' = iteration + 1
                 /\ batch'.calls
                      = conversation_history[Len(conversation_history)].tool_calls
                 /\ batch'.next = 1
                 /\ UNCHANGED <<conversation_history, completion, storage>>
            ELSE /\ pc' = "done"
                 /\ UNCHANGED <<conversation_history, completion, storage>>]_vars
  /\ [](BatchOfCheckReplyDone =>
         LET j == LastAssistantIndex(conversation_history)
             calls == conversation_history[j].tool_calls
         IN  /\ Len(conversation_history) = j + Len(calls)
             /\ \A k \in 1..Len(calls) :
                  /\ conversation_history[j + k].role = "tool"
                  /\ conversation_history[j + k].tool_call_id = calls[k].id
                  /\ conversation_history[j + k].name = calls[k].function.name)

\* the plan had no tool calls, the check round of the first iteration was
\* answered with two calls, and the second iteration has executed them
C29_Witness ==
  /\ pc = "next_call"
  /\ iteration = 2
  /\ Len(conversation_history) = 7
  /\ conversation_history[3].tool_calls = <<>>
  /\ conversation_history[4] = UserMessage(COMPLETION_CHECK_PROMPT)
  /\ conversation_history[5].tool_calls = BatchDirs
  /\ conversation_history[5].content = TextDone
  /\ batch.kinds = <<"ok", "ok">>
  /\ storage # InitStorage

(***************************************************************************)
(* Properties of the interleaving of requests and tool calls                *)
(***************************************************************************)
\* a request to the completion service is outstanding
CallOutstanding == pc \in {"plan_call", "check_call", "next_call", "final_call"}

\* a tool is executing
ToolExecuting == running.index # 0

\* the tool messages at the end of the conversation
ToolMessagesAtEnd ==
  Cardinality({ l \in 1..Len(conversation_history) :
                  \A m \in l..Len(conversation_history) :
                    conversation_history[m].role = "tool" })

\* the tool calls of the most recent assistant message, none when there is
\* no assistant message
CallsIssued ==
  IF \E l \in 1..Len(conversation_history) : conversation_history[l].role = "assistant"
    THEN LastAssistant(conversation_history).tool_calls
    ELSE <<>>

\* the reply to the outstanding request is received and appended, and then
\* the summary is requested
ReplyThenSummaryRequest ==
  /\ pc \in {"check_call", "next_call"}
  /\ pc' = "final_call"
  /\ Len(conversation_history') = Len(conversation_history) + 2
  /\ conversation_history'[Len(conversation_history) + 1].role = "assistant"
  /\ completion'.n = completion.n + 1

\* C30: a request to the completion service and a tool call are never under
\* way together.  While a request is outstanding every tool call of the most
\* recent assistant message has its tool message; a request is started only
\* when no request is outstanding or the reply to the outstanding one is
\* received first, and when no tool is executing or the executing one, the
\* last of its batch, returns and is answered first; a tool is started only
\* when no request is outstanding, and the call it executes is the next
\* unanswered one of the most recent assistant message of the conversation.
C30_OneRequestOrOneToolAtATime ==
  /\ [](~(CallOutstanding /\ ToolExecuting))
  /\ [](CallOutstanding =>
         \/ pc # "next_call" /\ CallsIssued = <<>>
         \/ pc = "next_call" /\ CallsIssued # <<>>
              /\ ToolMessagesAtEnd = Len(CallsIssued)
              /\ conversation_history[Len(conversation_history) - ToolMessagesAtEnd].role
                   = "assistant")
  /\ [](ToolExecuting =>
         /\ pc = "tool"
         /\ running.index = ToolMessagesAtEnd + 1
         /\ running.index <= Len(CallsIssued)
         /\ running.id = CallsIssued[running.index].id
         /\ running.name = CallsIssued[running.index].function.name)
  /\ [][(pc' # pc /\ pc' \in {"plan_call", "check_call", "next_call", "final_call"})
          => /\ ~ToolExecuting \/ (pc = "tool" /\ pc' = "next_call")
             /\ running' = NoTool
             /\ CallOutstanding => ReplyThenSummaryRequest]_vars
  /\ [][(~ToolExecuting /\ running'.index # 0)
          => ~CallOutstanding /\ pc' = "tool" /\ UNCHANGED completion]_vars

\* the third of five calls is executing: two are answered, no request is
\* outstanding, and two requests were made before
C30_Witness ==
  /\ ToolExecuting
  /\ running.index = 3
  /\ Len(CallsIssued) = 5
  /\ ToolMessagesAtEnd = 2
  /\ completion.n = 2
  /\ iteration = 2

(***************************************************************************)
(* Properties of the tool calls of a run                                    *)
(***************************************************************************)
\* the tool call that is executing has arguments that are no JSON
MalformedCallExecuting ==
  /\ ToolExecuting
  /\ ~batch.calls[running.index].function.arguments.wellformed

\* C31: a tool call whose arguments are no JSON is executed with the empty
\* argument object: the tool of its name is invoked with {}, the step in
\* which it returns appends the tool message with the id and the name of the
\* call and the text that _execute_tool gives for {}, and run does not fail.
C31_MalformedArgumentsBecomeEmpty ==
  /\ [](MalformedCallExecuting =>
         /\ running.arguments = <<>>
         /\ running.name = batch.calls[running.index].function.name
         /\ running.id = batch.calls[running.index].id)
  /\ [][MalformedCallExecuting =>
          /\ pc' \in {"tool", "next_call"}
          /\ error' = "None"
          /\ conversation_history' # conversation_history
          /\ IsPrefixOf(conversation_history, conversation_history')
          /\ Len(conversation_history') = Len(conversation_history) + 1
          /\ LET answer == conversation_history'[Len(conversation_history')]
                 call == batch.calls[running.index]
             IN  /\ answer.role = "tool"
                 /\ answer.tool_call_id = call.id
                 /\ answer.name = call.function.name
                 /\ answer.content
                      \in { out.text :
                              out \in ExecuteTool(available_tools, storage,
                                                  allowed_directories,
                                                  call.function.name, <<>>) }]_vars

\* the call of edit_file with arguments that are no JSON was answered: the
\* tool raised for the missing members of {}, and the batch goes on
C31_Witness ==
  /\ pc = "tool"
  /\ ~ToolExecuting
  /\ batch.calls = BatchBad
  /\ batch.next = 4
  /\ batch.kinds[3] = "ValidationError"
  /\ conversation_history[Len(conversation_history)].tool_call_id = "c3"
  /\ conversation_history[Len(conversation_history)].name = "edit_file"
  /\ error = "None"

(***************************************************************************)
(* Properties of the fence of the diff                                      *)
(***************************************************************************)
RECURSIVE LeadingBackticks(_)
LeadingBackticks(text) ==
  IF text # <<>> /\ Head(text) = BQ THEN 1 + LeadingBackticks(Tail(text)) ELSE 0

RECURSIVE TrailingBackticks(_)
TrailingBackticks(text) ==
  IF text # <<>> /\ text[Len(text)] = BQ
    THEN 1 + TrailingBackticks(SubSeq(text, 1, Len(text) - 1))
    ELSE 0

\* the length of the longest run of backticks in a text
LongestRun(text) ==
  CHOOSE n \in 0..Len(text) :
    /\ Contains(text, [i \in 1..n |-> BQ])
    /\ ~Contains(text, [i \in 1..(n + 1) |-> BQ])

\* the diff between the file as the last call of edit_file read it and the
\* content its edits made
DiffOfLastEdit ==
  create_unified_diff(normalize_line_endings(ReadText(ed.pre[pRf].content)),
                      ed.loop.content, ed.args.path)

\* C32: the text edit_file returns is the diff between two fences: the
\* opening fence, followed by "diff" and a line end, and the closing fence,
\* on a line of its own, have the same width; the width is at least 3 and
\* greater than the length of the longest run of backticks in the diff.
C32_FenceWiderThanEveryRun ==
  ed.kind = "ok" =>
    LET width == LeadingBackticks(ed.text)
        closing == TrailingBackticks(SubSeq(ed.text, 1, Len(ed.text) - 2))
        diff == SubSeq(ed.text, width + 6, Len(ed.text) - width - 3)
    IN  /\ width >= 3
        /\ closing = width
        /\ SubSeq(ed.text, width + 1, width + 5) = <<"d", "i", "f", "f", NL>>
        /\ SubSeq(ed.text, Len(ed.text) - width - 2, Len(ed.text) - width - 2) = <<NL>>
        /\ SubSeq(ed.text, Len(ed.text) - 1, Len(ed.text)) = <<NL, NL>>
        /\ diff = DiffOfLastEdit
        /\ width > LongestRun(diff)

\* a diff with a run of five backticks and one of three: the fence has six
C32_Witness ==
  /\ ed.kind = "ok"
  /\ LongestRun(DiffOfLastEdit) = 5
  /\ Contains(DiffOfLastEdit, <<NL, "+", BQ, BQ, BQ>>)
  /\ LeadingBackticks(ed.text) = 6

(***************************************************************************)
(* Properties of the end of a run and of the number of its requests         *)
(***************************************************************************)
RunStarted == pc \notin {"idle", "done", "failed"}
RunEnded == pc \in {"done", "failed"}

\* the requests a run has made when it has started `iteration` iterations:
\* one for the plan, one for each iteration (an iteration that executes
\* tools makes its request after them), one for the summary
RequestsDue ==
  1 + iteration - (IF pc = "tool" THEN 1 ELSE 0)
    + (IF FinalSummaryRequested THEN 1 ELSE 0)

\* C33: a run that has started ends, when every call it awaits returns or
\* raises.  It starts at most max_iterations iterations and has made one
\* request for the plan, one for each iteration started and one for the
\* summary when it was asked for: at most max_iterations + 2, and exactly
\* max_iterations + 1 when it returns the text of the exhausted loop.
C33_RunEndsWithBoundedRequests ==
  /\ RunStarted ~> RunEnded
  /\ [](pc # "idle" =>
         /\ iteration <= max_iterations
         /\ completion.n = RequestsDue
         /\ completion.n <= max_iterations + 2
         /\ (pc = "done" /\ result = MaxIterationsReached) =>
              /\ iteration = max_iterations
              /\ ~FinalSummaryRequested
              /\ completion.n = max_iterations + 1)
  /\ [][completion'.n = completion.n
          \/ (completion'.n = completion.n + 1
                /\ pc' \in {"check_call", "next_call", "final_call"})
          \/ (completion'.n = 1 /\ pc' = "plan_call" /\ runs' = runs + 1)]_vars

\* a run of two iterations that made four requests: the plan, one after the
\* tools of the first iteration, one in the check round of the second, and
\* the summary
C33_Witness ==
  /\ pc = "done"
  /\ max_iterations = 2
  /\ iteration = 2
  /\ completion.n = 4
  /\ ToolRounds = 1
  /\ FinalSummaryRequested
  /\ result # MaxIterationsReached

(***************************************************************************)
(* Properties of the dispatch of the tool calls                             *)
(***************************************************************************)
\* the tool messages that stand directly behind message j
ToolMessagesBehind(j) ==
  Cardinality({ l \in (j + 1)..Len(conversation_history) :
                  \A m \in (j + 1)..l : conversation_history[m].role = "tool" })

\* C34: no tool call is executed twice in a run.  An iteration starts with
\* an assistant message as the last message of the conversation; the batch
\* it starts is the batch of that message, which has no tool message yet;
\* the call that is started is the one at the place behind the tool messages
\* of that batch, and the step in which it returns puts its tool message
\* there; no assistant message has more tool messages behind it than calls.
C34_NoToolCallExecutedTwice ==
  /\ [](pc = "iter" =>
         /\ conversation_history[Len(conversation_history)].role = "assistant"
         /\ ~ToolExecuting)
  /\ [](\A j \in 1..Len(conversation_history) :
          conversation_history[j].role = "assistant" =>
            ToolMessagesBehind(j) <= Len(conversation_history[j].tool_calls))
  /\ [][(pc = "iter" /\ pc' = "tool") =>
          /\ batch'.calls = conversation_history[Len(conversation_history)].tool_calls
          /\ batch'.next = 1
          /\ UNCHANGED conversation_history]_vars
  /\ [][(~ToolExecuting /\ running'.index # 0) =>
          LET j == LastAssistantIndex(conversation_history)
          IN  /\ batch.calls = conversation_history[j].tool_calls
              /\ running'.index = batch.next
              /\ Len(conversation_history) = j + running'.index - 1
              /\ ToolMessagesBehind(j) = running'.index - 1
              /\ UNCHANGED <<conversation_history, batch>>]_vars
  /\ [][ToolExecuting =>
          /\ Len(conversation_history') = Len(conversation_history) + 1
          /\ conversation_history'[Len(conversation_history')].role = "tool"
          /\ batch'.next = running.index + 1
          /\ batch'.calls = batch.calls
          /\ pc' = "tool" <=> running.index < Len(batch.calls)]_vars

\* the first call of the batch of the second assistant message is started,
\* after the batch of the first, whose calls have the same ids, was answered
C34_Witness ==
  /\ pc = "tool"
  /\ iteration = 2
  /\ running.index = 1
  /\ running.id = "c1"
  /\ running.name = "create_directory"
  /\ Len(conversation_history) = 6
  /\ conversation_history[3].tool_calls = BatchEdits
  /\ conversation_history[4].tool_call_id = "c1"
  /\ conversation_history[5].tool_call_id = "c2"
  /\ conversation_history[6].tool_calls = BatchDirs

\* every tool call of assistant message j has its tool message: behind the
\* message stand as many tool messages as it has calls, with the ids and the
\* names of the calls in their order
FullyAnswered(j) ==
  LET calls == conversation_history[j].tool_calls
  IN  /\ ToolMessagesBehind(j) = Len(calls)
      /\ \A k \in 1..Len(calls) :
           /\ conversation_history[j + k].tool_call_id = calls[k].id
           /\ conversation_history[j + k].name = calls[k].function.name

AssistantMessages ==
  { j \in 1..Len(conversation_history) : conversation_history[j].role = "assistant" }

\* run has returned the text of the exhausted loop
EndedExhausted == pc = "done" /\ result = MaxIterationsReached

\* C35: when run has returned the summary, every tool call of every
\* assistant message of the conversation has exactly one tool message.  At
\* every moment the tool calls without a tool message are calls of the last
\* assistant message; when run has ended, there are such calls only when it
\* returned the text of the exhausted loop, and then none of the calls of
\* that last message was executed.
C35_CompletedRunsAnswerEveryCall ==
  /\ \A j \in AssistantMessages :
       j # LastAssistantIndex(conversation_history) => FullyAnswered(j)
  /\ (RunEnded /\ ~EndedExhausted) => \A j \in AssistantMessages : FullyAnswered(j)
  /\ (pc = "done" /\ ~EndedExhausted) => FinalSummaryRequested
  /\ EndedExhausted =>
       /\ conversation_history[Len(conversation_history)].role = "assistant"
       /\ ~FinalSummaryRequested

\* run has returned the summary after two batches of two calls: each of the
\* four calls has its tool message
C35_Witness ==
  /\ pc = "done"
  /\ FinalSummaryRequested
  /\ ToolRounds = 2
  /\ Len(conversation_history) = 10
  /\ conversation_history[3].tool_calls = BatchDirs
  /\ conversation_history[6].tool_calls = BatchWriteRead
  /\ conversation_history[9].tool_calls = <<>>

(***************************************************************************)
(* Properties of the sandbox without an allowed directory                   *)
(***************************************************************************)
\* no candidate of the last initialization is a directory
NoCandidateIsDirectory ==
  \A k \in 1..Len(tl.arguments) :
    ~IsDir(tl.pre, normalize_path(AbsPath(expand_home(tl.arguments[k]))))

\* the paths validate_path is asked about
PathsAsked == {pRoot, pR, pRf, pRd, pRl, pRk, pRn, pO, pOs, pRdef, <<>>, <<"f">>}

\* C36: without an allowed directory the sandbox is closed.  An
\* initialization with no candidate, or with candidates none of which is a
\* directory, leaves no allowed directory, as does no initialization; then
\* validate_path raises the access-denied error for every path, and a call
\* of a filesystem tool leaves the storage as it was and gives the error
\* text of the tool boundary, which holds nothing of the storage: access
\* denied when a path was given, the argument error otherwise.
C36_NoAllowedDirectoryFailsClosed ==
  /\ (tl.name = "initialize_filesystem_settings" /\ NoCandidateIsDirectory)
       => allowed_directories = <<>>
  /\ allowed_directories = <<>> =>
       \A p \in PathsAsked :
         validate_path(p, allowed_directories, storage) = Err("AccessDenied")
  /\ (tl.name = "validate_path" /\ tl.dirs = <<>>) => tl.kind = "AccessDenied"
  /\ (tl.name \in ToolNames /\ tl.dirs = <<>>) =>
       /\ storage = tl.pre
       /\ tl.kind = IF PathGiven THEN "AccessDenied" ELSE "ValidationError"
       /\ tl.text = TxtToolRaised \o <<tl.name, tl.kind>>

\* after an initialization that left no allowed directory, write_file is
\* called with a path below /r that has no file: none is made
C36_Witness ==
  /\ allowed_directories = <<>>
  /\ tl.name = "write_file"
  /\ tl.arguments = [path |-> pRn, content |-> <<"x">>]
  /\ tl.dirs = <<>>
  /\ tl.kind = "AccessDenied"
  /\ ~Exists(storage, pRn)
  /\ storage = ToolStorage
====
